---- MODULE Spec2Model ----
(***************************************************************************)
(* Verification model of the taiga plugin-and-daemon framework.            *)
(*                                                                         *)
(*   RegSpec     PluginManager (taiga-cli/src/plugin_manager.rs)           *)
(*   DaemonSpec  run_daemon_loop / handle_connection                       *)
(*               (taiga-plugin-api/src/daemon/traits.rs) with its clients  *)
(*   AutoSpec    send_command_with_autospawn (daemon/client.rs)            *)
(*   PathSpec    daemon processes and clients sharing one socket path      *)
(*   TickSpec    the tick interval of run_daemon_loop against the clock    *)
(*   CodecSpec   send_message / receive_message (daemon/ipc.rs)            *)
(*   PomoSpec    the pomodoro daemon (plugins/pomodoro/src/daemon.rs)      *)
(*   CollSpec    TaskCollection (taiga-core/src/task.rs)                   *)
(*   StoreSpec   MarkdownStorage (taiga-cli/src/storage.rs)                *)
(***************************************************************************)
EXTENDS Integers, Sequences, FiniteSets, TLC

VARIABLES
    \* ---- PluginManager ----
    static_plugins,     \* HashMap<String, Arc<dyn Plugin>>: name -> plugin object
    dynamic_plugins,    \* HashMap<String, DynamicPlugin>: name -> [plugin, library]
    plugin_paths,       \* Vec<PathBuf>
    ret,                \* result of the last PluginManager call
    trace,              \* calls made on plugins/libraries by the last call
    \* ---- daemon runtime ----
    pc,                 \* position of run_daemon_loop
    listening,          \* a listener is bound at socket_path
    sock_file,          \* the filesystem artifact of socket_path exists
    lock,               \* owner of the handler mutex (0 = free, MainId, or a connection)
    active,             \* handler callbacks in progress: set of <<owner, callback>>
    should_shutdown,    \* the shared AtomicBool
    backlog,            \* connections waiting in the listener's accept queue
    cst,                \* per connection: state of the client end
    inbox,              \* per connection: what the client wrote ("" = nothing yet)
    tpc,                \* per connection: position of the handle_connection task
    result,             \* per connection: HandleResult returned by handle_command
    handled,            \* per connection: number of handle_command invocations
    written,            \* per connection: number of responses written to it
    received,           \* per connection: number of responses its client has read
    hist,               \* history of the daemon run (calls made, what followed the flag)
    \* ---- one call of send_command_with_autospawn ----
    call,               \* position, counters and result of the client call
    \* ---- daemon processes sharing one socket path ----
    rpc,                \* per daemon process: position of its run_daemon_loop
    path_owner,         \* the process whose listener the socket path names (0 = no file)
    kpc,                \* per client: position of its autospawn sequence
    \* ---- the tick interval of run_daemon_loop against the clock ----
    tick,               \* position of the loop, the clock, the interval and the handler's counter
    \* ---- one message through send_message / receive_message ----
    wire,               \* the value sent, its bytes on the stream, and what receive returned
    \* ---- the pomodoro daemon ----
    timer,              \* TimerState, the value behind the state mutex
    pomo,               \* clock, state lock, connection tasks and history of the daemon process
    \* ---- a TaskCollection ----
    coll,               \* tasks, next_id and the result of the last call
    \* ---- the files of a MarkdownStorage ----
    disk                \* the tasks file, the backup file and the result of the last call

regVars == <<static_plugins, dynamic_plugins, plugin_paths, ret, trace>>
daemonVars == <<pc, listening, sock_file, lock, active, should_shutdown,
                backlog, cst, inbox, tpc, result, handled, written, received, hist>>
callVars == <<call>>
pathVars == <<rpc, path_owner, kpc>>
tickVars == <<tick>>
codecVars == <<wire>>
pomoVars == <<timer, pomo>>
taskVars == <<coll>>
storeVars == <<disk>>
vars == <<static_plugins, dynamic_plugins, plugin_paths, ret, trace,
          pc, listening, sock_file, lock, active, should_shutdown,
          backlog, cst, inbox, tpc, result, handled, written, received, hist,
          call, rpc, path_owner, kpc, tick, wire, timer, pomo, coll, disk>>

(***************************************************************************)
(* Strings are sequences of one-character strings, so that strip_prefix,   *)
(* strip_suffix and contains are computed as the code computes them.       *)
(***************************************************************************)
LIB == <<"l", "i", "b">>
DOT_SO == <<".", "s", "o">>
DOT_DYLIB == <<".", "d", "y", "l", "i", "b">>
DOT_DLL == <<".", "d", "l", "l">>
SLASH == <<"/">>

None == [some |-> FALSE]
Some(v) == [some |-> TRUE, val |-> v]

StartsWith(s, p) == Len(p) <= Len(s) /\ SubSeq(s, 1, Len(p)) = p
EndsWith(s, p) == Len(p) <= Len(s) /\ SubSeq(s, Len(s) - Len(p) + 1, Len(s)) = p

\* str::strip_prefix / str::strip_suffix
StripPrefix(s, p) == IF StartsWith(s, p) THEN Some(SubSeq(s, Len(p) + 1, Len(s))) ELSE None
StripSuffix(s, p) == IF EndsWith(s, p) THEN Some(SubSeq(s, 1, Len(s) - Len(p))) ELSE None

\* Option::unwrap_or, Option::or_else
UnwrapOr(o, d) == IF o.some THEN o.val ELSE d
OrElse(o, p) == IF o.some THEN o ELSE p

\* str::contains
Contains(s, sub) ==
    \E i \in 0..(Len(s) - Len(sub)) : SubSeq(s, i + 1, i + Len(sub)) = sub

\* Path::extension: the part after the last '.', None when there is no '.'
\* or when the only '.' is the first character
Extension(fname) ==
    LET dots == {i \in 1..Len(fname) : fname[i] = "."}
        last == CHOOSE i \in dots : \A j \in dots : j <= i
    IN  IF dots = {} \/ last = 1 THEN None
        ELSE Some(SubSeq(fname, last + 1, Len(fname)))

(***************************************************************************)
(* The file system the PluginManager looks at.                             *)
(***************************************************************************)
D1 == <<"p">>                       \* a plugin directory
D2 == <<"q">>                       \* a second plugin directory
D3 == <<"m">>                       \* a search path that does not exist
D4 == <<"u">>                       \* a path that exists but cannot be listed
Dirs == {D1, D2, D3, D4}

F_A == <<"l", "i", "b", "a", ".", "s", "o">>     \* liba.so
F_B == <<"l", "i", "b", "b", ".", "s", "o">>     \* libb.so
F_N == <<"n", ".", "s", "o">>                    \* n.so
F_T == <<"t", ".", "t", "x", "t">>               \* t.txt
F_X == <<"x", ".", "s", "o">>                    \* x.so (exists nowhere)

Join(dir, fname) == dir \o SLASH \o fname

DirExists(dir) == dir \in {D1, D2, D4}
DirReadable(dir) == dir \in {D1, D2}
DirEntries(dir) ==
    IF dir = D1 THEN {F_A, F_B, F_T}
    ELSE IF dir = D2 THEN {F_A, F_N}
    ELSE {}

\* What loading the library at a path does: "noopen" (Library::new fails),
\* "nosym" (no taiga_plugin_create), "null" (create returns a null handle),
\* or "plugin" (create returns a plugin reporting the given name)
LibAt(path) ==
    IF path \in {Join(D1, F_A), Join(D2, F_A)} THEN [kind |-> "plugin", name |-> "a"]
    ELSE IF path = Join(D1, F_B) THEN [kind |-> "plugin", name |-> "b"]
    ELSE IF path = Join(D2, F_N) THEN [kind |-> "null", name |-> ""]
    ELSE IF path = Join(D1, F_T) THEN [kind |-> "nosym", name |-> ""]
    ELSE [kind |-> "noopen", name |-> ""]

LoadPaths == {Join(D1, F_A), Join(D2, F_A), Join(D1, F_B), Join(D2, F_N),
              Join(D1, F_T), Join(D1, F_X)}

\* The in-process plugin objects a host can hand to register_static
StaticPlugins ==
    { [id |-> 101, name |-> "a", on_load_ok |-> TRUE],
      [id |-> 102, name |-> "a", on_load_ok |-> TRUE],
      [id |-> 103, name |-> "b", on_load_ok |-> TRUE],
      [id |-> 104, name |-> "c", on_load_ok |-> FALSE] }

PluginNames == {"a", "b", "c"}

MaxPaths == 2

(***************************************************************************)
(* PluginManager                                                           *)
(***************************************************************************)
\* HashMap::insert: a present key is overwritten
Insert(map, k, v) == [n \in (DOMAIN map) \cup {k} |-> IF n = k THEN v ELSE map[n]]

EmptyMap == [n \in {} |-> 0]

\* Result<..> of a PluginManager call, with the call it answers: path is the
\* argument of load_dynamic and add_plugin_path, id the plugin object given to
\* register_static, name the plugin name given to execute
Ok(op, path, id, name) ==
    [op |-> op, path |-> path, id |-> id, name |-> name, ok |-> TRUE, err |-> "",
     loaded |-> <<>>]
Err(op, path, id, name, e) ==
    [op |-> op, path |-> path, id |-> id, name |-> name, ok |-> FALSE, err |-> e,
     loaded |-> <<>>]

\* Identity of the object a creation function allocates: any address not
\* held by a live dynamic plugin (the smallest one, addresses being reusable)
LiveIds(dyn) == {dyn[n].plugin.id : n \in DOMAIN dyn}
Alloc(dyn) == CHOOSE i \in 1..(Cardinality(LiveIds(dyn)) + 1) :
                  /\ i \notin LiveIds(dyn)
                  /\ \A j \in 1..(i - 1) : j \in LiveIds(dyn)

\* a duplicate check that forgets the dynamic map
StaticDuplicateOnlyStatic(st, dyn, name) == name \in DOMAIN st

\* the duplicate check of register_static
StaticDuplicate(st, dyn, name) == name \in DOMAIN st \/ name \in DOMAIN dyn

\* a duplicate check that forgets the static map
DynamicDuplicateOnlyDynamic(st, dyn, name) == name \in DOMAIN dyn

\* the duplicate check of load_dynamic
DynamicDuplicate(st, dyn, name) == name \in DOMAIN st \/ name \in DOMAIN dyn

\* PluginManager::get: the static map is consulted first
Get(st, dyn, name) ==
    IF name \in DOMAIN st THEN Some(st[name])
    ELSE IF name \in DOMAIN dyn THEN Some(dyn[name].plugin)
    ELSE None

\* PluginManager::has_plugin
HasPlugin(st, dyn, name) == name \in DOMAIN st \/ name \in DOMAIN dyn

\* a load_dynamic that calls the plugin's on_load before registering it
LoadDynamicOnEager(st, dyn, path) ==
    LET lib == LibAt(path)
        id == Alloc(dyn)
        plugin == [id |-> id, name |-> lib.name, on_load_ok |-> TRUE]
    IN  IF lib.kind = "noopen"
        THEN [dyn |-> dyn, ret |-> Err("load_dynamic", path, 0, "", "open_failed"), tr |-> <<>>]
        ELSE IF lib.kind = "nosym"
        THEN [dyn |-> dyn, ret |-> Err("load_dynamic", path, 0, "", "missing_symbol"),
              tr |-> <<<<"open", id>>, <<"drop_library", id>>>>]
        ELSE IF lib.kind = "null"
        THEN [dyn |-> dyn, ret |-> Err("load_dynamic", path, 0, "", "null_handle"),
              tr |-> <<<<"open", id>>, <<"create", id>>, <<"drop_library", id>>>>]
        ELSE IF DynamicDuplicate(st, dyn, lib.name)
        THEN [dyn |-> dyn, ret |-> Err("load_dynamic", path, 0, "", "already_registered"),
              tr |-> <<<<"open", id>>, <<"create", id>>, <<"into_boxed", id>>,
                       <<"drop_plugin", id>>, <<"drop_library", id>>>>]
        ELSE [dyn |-> Insert(dyn, lib.name, [plugin |-> plugin, library |-> id]),
              ret |-> Ok("load_dynamic", path, 0, ""),
              tr |-> <<<<"open", id>>, <<"create", id>>, <<"into_boxed", id>>,
                       <<"on_load", id>>>>]

\* a load_dynamic without the is_null test: the handle goes to into_boxed
\* whatever its data pointer
LoadDynamicOnNoNullCheck(st, dyn, path) ==
    LET lib == LibAt(path)
        id == Alloc(dyn)
        plugin == [id |-> id, name |-> lib.name, on_load_ok |-> TRUE]
    IN  IF lib.kind = "noopen"
        THEN [dyn |-> dyn, ret |-> Err("load_dynamic", path, 0, "", "open_failed"), tr |-> <<>>]
        ELSE IF lib.kind = "nosym"
        THEN [dyn |-> dyn, ret |-> Err("load_dynamic", path, 0, "", "missing_symbol"),
              tr |-> <<<<"open", id>>, <<"drop_library", id>>>>]
        ELSE IF DynamicDuplicate(st, dyn, lib.name)
        THEN [dyn |-> dyn, ret |-> Err("load_dynamic", path, 0, "", "already_registered"),
              tr |-> <<<<"open", id>>, <<"create", id>>, <<"into_boxed", id>>,
                       <<"drop_plugin", id>>, <<"drop_library", id>>>>]
        ELSE [dyn |-> Insert(dyn, lib.name, [plugin |-> plugin, library |-> id]),
              ret |-> Ok("load_dynamic", path, 0, ""),
              tr |-> <<<<"open", id>>, <<"create", id>>, <<"into_boxed", id>>>>]

\* PluginManager::load_dynamic as a function of the registry: the new
\* dynamic map, the result and the calls made
LoadDynamicOn(st, dyn, path) ==
    LET lib == LibAt(path)
        id == Alloc(dyn)
        plugin == [id |-> id, name |-> lib.name, on_load_ok |-> TRUE]
    IN  IF lib.kind = "noopen"
        THEN [dyn |-> dyn, ret |-> Err("load_dynamic", path, 0, "", "open_failed"), tr |-> <<>>]
        ELSE IF lib.kind = "nosym"
        THEN [dyn |-> dyn, ret |-> Err("load_dynamic", path, 0, "", "missing_symbol"),
              tr |-> <<<<"open", id>>, <<"drop_library", id>>>>]
        ELSE IF lib.kind = "null"
        THEN [dyn |-> dyn, ret |-> Err("load_dynamic", path, 0, "", "null_handle"),
              tr |-> <<<<"open", id>>, <<"create", id>>, <<"drop_library", id>>>>]
        ELSE IF DynamicDuplicate(st, dyn, lib.name)
        THEN [dyn |-> dyn, ret |-> Err("load_dynamic", path, 0, "", "already_registered"),
              tr |-> <<<<"open", id>>, <<"create", id>>, <<"into_boxed", id>>,
                       <<"drop_plugin", id>>, <<"drop_library", id>>>>]
        ELSE [dyn |-> Insert(dyn, lib.name, [plugin |-> plugin, library |-> id]),
              ret |-> Ok("load_dynamic", path, 0, ""),
              tr |-> <<<<"open", id>>, <<"create", id>>, <<"into_boxed", id>>>>]

\* PluginManager::new
NewManager ==
    /\ static_plugins = EmptyMap
    /\ dynamic_plugins = EmptyMap
    /\ plugin_paths = <<>>
    /\ ret = Ok("new", <<>>, 0, "")
    /\ trace = <<>>

AddPluginPath(dir) ==
    /\ Len(plugin_paths) < MaxPaths
    /\ plugin_paths' = Append(plugin_paths, dir)
    /\ ret' = Ok("add_plugin_path", dir, 0, "")
    /\ trace' = <<>>
    /\ UNCHANGED <<static_plugins, dynamic_plugins>>
    /\ UNCHANGED <<daemonVars, callVars, pathVars, tickVars, codecVars, pomoVars, taskVars, storeVars>>

\* a register_static that inserts the plugin first and calls on_load after
RegisterStaticInsertFirst(plugin) ==
    /\ IF StaticDuplicate(static_plugins, dynamic_plugins, plugin.name)
       THEN /\ ret' = Err("register_static", <<>>, plugin.id, "", "already_registered")
            /\ trace' = <<>>
            /\ UNCHANGED static_plugins
       ELSE /\ static_plugins' = Insert(static_plugins, plugin.name, plugin)
            /\ trace' = <<<<"insert", plugin.id>>, <<"on_load", plugin.id>>>>
            /\ ret' = IF plugin.on_load_ok
                      THEN Ok("register_static", <<>>, plugin.id, "")
                      ELSE Err("register_static", <<>>, plugin.id, "", "load_error")
    /\ UNCHANGED <<dynamic_plugins, plugin_paths>>
    /\ UNCHANGED <<daemonVars, callVars, pathVars, tickVars, codecVars, pomoVars, taskVars, storeVars>>

\* PluginManager::register_static: duplicate check, then on_load()?, then the
\* insert
RegisterStatic(plugin) ==
    /\ IF StaticDuplicate(static_plugins, dynamic_plugins, plugin.name)
       THEN /\ ret' = Err("register_static", <<>>, plugin.id, "", "already_registered")
            /\ trace' = <<>>
            /\ UNCHANGED static_plugins
       ELSE IF ~plugin.on_load_ok
       THEN /\ ret' = Err("register_static", <<>>, plugin.id, "", "load_error")
            /\ trace' = <<<<"on_load", plugin.id>>>>
            /\ UNCHANGED static_plugins
       ELSE /\ static_plugins' = Insert(static_plugins, plugin.name, plugin)
            /\ ret' = Ok("register_static", <<>>, plugin.id, "")
            /\ trace' = <<<<"on_load", plugin.id>>, <<"insert", plugin.id>>>>
    /\ UNCHANGED <<dynamic_plugins, plugin_paths>>
    /\ UNCHANGED <<daemonVars, callVars, pathVars, tickVars, codecVars, pomoVars, taskVars, storeVars>>

LoadDynamic(path) ==
    LET r == LoadDynamicOn(static_plugins, dynamic_plugins, path)
    IN  /\ dynamic_plugins' = r.dyn
        /\ ret' = r.ret
        /\ trace' = r.tr
        /\ UNCHANGED <<static_plugins, plugin_paths>>
    /\ UNCHANGED <<daemonVars, callVars, pathVars, tickVars, codecVars, pomoVars, taskVars, storeVars>>

\* the extension test of discover_plugins on a Linux build
TargetOs == "linux"
IsPlugin(extension) ==
    IF extension = Some(<<"s", "o">>) THEN TargetOs = "linux"
    ELSE IF extension = Some(<<"d", "y", "l", "i", "b">>) THEN TargetOs = "macos"
    ELSE IF extension = Some(<<"d", "l", "l">>) THEN TargetOs = "windows"
    ELSE FALSE

\* plugin_base_name of discover_plugins
PluginBaseName(file_name) ==
    UnwrapOr(
        OrElse(OrElse(StripSuffix(UnwrapOr(StripPrefix(file_name, LIB), file_name), DOT_SO),
                      StripSuffix(file_name, DOT_DYLIB)),
               StripSuffix(file_name, DOT_DLL)),
        file_name)

\* already_loaded of discover_plugins
AlreadyLoaded(loaded, base) == \E i \in 1..Len(loaded) : Contains(loaded[i], base)

\* an iteration without the already_loaded skip, which lists every candidate
\* whose library produced a plugin
DiscoverEntryNoDedup(st, s, dir, fname) ==
    LET file_path == Join(dir, fname)
        r == LoadDynamicOn(st, s.dyn, file_path)
    IN  IF ~IsPlugin(Extension(fname)) THEN s
        ELSE [s EXCEPT !.dyn = r.dyn,
                       !.loaded = IF LibAt(file_path).kind = "plugin"
                                  THEN Append(s.loaded, file_path) ELSE s.loaded,
                       !.tr = s.tr \o r.tr]

\* an iteration that gives up the whole discovery when a candidate fails to
\* load
DiscoverEntryFailFast(st, s, dir, fname) ==
    LET file_path == Join(dir, fname)
        r == LoadDynamicOn(st, s.dyn, file_path)
    IN  IF ~s.ok THEN s
        ELSE IF ~IsPlugin(Extension(fname)) THEN s
        ELSE IF AlreadyLoaded(s.loaded, PluginBaseName(fname)) THEN s
        ELSE [s EXCEPT !.dyn = r.dyn,
                       !.loaded = IF r.ret.ok THEN Append(s.loaded, file_path) ELSE s.loaded,
                       !.tr = s.tr \o r.tr,
                       !.ok = r.ret.ok]

\* one iteration of the inner loop of discover_plugins
DiscoverEntry(st, s, dir, fname) ==
    LET file_path == Join(dir, fname)
        r == LoadDynamicOn(st, s.dyn, file_path)
    IN  IF ~IsPlugin(Extension(fname)) THEN s
        ELSE IF AlreadyLoaded(s.loaded, PluginBaseName(fname)) THEN s
        ELSE [s EXCEPT !.dyn = r.dyn,
                       !.loaded = IF r.ret.ok THEN Append(s.loaded, file_path) ELSE s.loaded,
                       !.tr = s.tr \o r.tr]

RECURSIVE DiscoverEntries(_, _, _, _)
DiscoverEntries(st, s, dir, entries) ==
    IF entries = <<>> THEN s
    ELSE DiscoverEntries(st, DiscoverEntry(st, s, dir, Head(entries)), dir, Tail(entries))

\* the outer loop of discover_plugins; ord gives the order in which read_dir
\* lists each directory
RECURSIVE DiscoverDirs(_, _, _, _)
DiscoverDirs(st, s, paths, ord) ==
    IF paths = <<>> THEN s
    ELSE IF ~DirExists(Head(paths)) THEN DiscoverDirs(st, s, Tail(paths), ord)
    ELSE IF ~DirReadable(Head(paths)) THEN [s EXCEPT !.ok = FALSE]
    ELSE DiscoverDirs(st, DiscoverEntries(st, s, Head(paths), ord[Head(paths)]),
                      Tail(paths), ord)

Perms(S) == {f \in [1..Cardinality(S) -> S] : \A i, j \in 1..Cardinality(S) : f[i] = f[j] => i = j}

\* the orders in which read_dir may list the directories
ListingOrders ==
    { [d \in Dirs |-> IF d = D1 THEN o1 ELSE IF d = D2 THEN o2 ELSE <<>>] :
          o1 \in Perms(DirEntries(D1)), o2 \in Perms(DirEntries(D2)) }

DiscoverPlugins ==
    \E ord \in ListingOrders :
        /\ LET s == DiscoverDirs(static_plugins,
                                 [dyn |-> dynamic_plugins, loaded |-> <<>>, tr |-> <<>>, ok |-> TRUE],
                                 plugin_paths, ord)
           IN  /\ dynamic_plugins' = s.dyn
               /\ ret' = IF s.ok
                         THEN [Ok("discover_plugins", <<>>, 0, "") EXCEPT !.loaded = s.loaded]
                         ELSE Err("discover_plugins", <<>>, 0, "", "read_dir_failed")
               /\ trace' = s.tr
        /\ UNCHANGED <<static_plugins, plugin_paths>>
        /\ UNCHANGED <<daemonVars, callVars, pathVars, tickVars, codecVars, pomoVars, taskVars, storeVars>>

\* an execute that forwards the command a second time when the plugin fails
ExecuteRetry(name) ==
    LET found == Get(static_plugins, dynamic_plugins, name)
    IN  /\ IF ~found.some
           THEN /\ ret' = Err("execute", <<>>, 0, name, "not_found")
                /\ trace' = <<>>
           ELSE \E plugin_ok \in BOOLEAN :
                   /\ ret' = IF plugin_ok THEN Ok("execute", <<>>, 0, name)
                             ELSE Err("execute", <<>>, 0, name, "execution_failed")
                   /\ trace' = IF plugin_ok THEN <<<<"execute", found.val.id>>>>
                               ELSE <<<<"execute", found.val.id>>, <<"execute", found.val.id>>>>
        /\ UNCHANGED <<static_plugins, dynamic_plugins, plugin_paths>>
        /\ UNCHANGED <<daemonVars, callVars, pathVars, tickVars, codecVars, pomoVars, taskVars, storeVars>>

\* PluginManager::execute; the outcome of the plugin's own execute is its choice
Execute(name) ==
    LET found == Get(static_plugins, dynamic_plugins, name)
    IN  /\ IF ~found.some
           THEN /\ ret' = Err("execute", <<>>, 0, name, "not_found")
                /\ trace' = <<>>
           ELSE /\ \E plugin_ok \in BOOLEAN :
                       ret' = IF plugin_ok THEN Ok("execute", <<>>, 0, name)
                              ELSE Err("execute", <<>>, 0, name, "execution_failed")
                /\ trace' = <<<<"execute", found.val.id>>>>
        /\ UNCHANGED <<static_plugins, dynamic_plugins, plugin_paths>>
        /\ UNCHANGED <<daemonVars, callVars, pathVars, tickVars, codecVars, pomoVars, taskVars, storeVars>>

\* an unload_all over a DynamicPlugin whose library field is declared, and so
\* dropped, before its plugin field
UnloadAllLibraryFirst ==
    \E so \in Perms(DOMAIN static_plugins), do \in Perms(DOMAIN dynamic_plugins) :
        LET ns == Cardinality(DOMAIN static_plugins)
            nd == Cardinality(DOMAIN dynamic_plugins)
        IN  /\ trace' = [i \in 1..(ns + 2 * nd) |->
                            IF i <= ns THEN <<"drop_arc", static_plugins[so[i]].id>>
                            ELSE IF (i - ns) % 2 = 1
                            THEN <<"drop_library", dynamic_plugins[do[(i - ns + 1) \div 2]].library>>
                            ELSE <<"drop_plugin", dynamic_plugins[do[(i - ns) \div 2]].plugin.id>>]
            /\ static_plugins' = EmptyMap
            /\ dynamic_plugins' = EmptyMap
            /\ ret' = Ok("unload_all", <<>>, 0, "")
            /\ UNCHANGED plugin_paths
            /\ UNCHANGED <<daemonVars, callVars, pathVars, tickVars, codecVars, pomoVars, taskVars, storeVars>>

\* PluginManager::unload_all (also run by Drop): both maps are cleared; each
\* DynamicPlugin drops its fields in declaration order, plugin then library
UnloadAll ==
    \E so \in Perms(DOMAIN static_plugins), do \in Perms(DOMAIN dynamic_plugins) :
        LET ns == Cardinality(DOMAIN static_plugins)
            nd == Cardinality(DOMAIN dynamic_plugins)
        IN  /\ trace' = [i \in 1..(ns + 2 * nd) |->
                            IF i <= ns THEN <<"drop_arc", static_plugins[so[i]].id>>
                            ELSE IF (i - ns) % 2 = 1
                            THEN <<"drop_plugin", dynamic_plugins[do[(i - ns + 1) \div 2]].plugin.id>>
                            ELSE <<"drop_library", dynamic_plugins[do[(i - ns) \div 2]].library>>]
            /\ static_plugins' = EmptyMap
            /\ dynamic_plugins' = EmptyMap
            /\ ret' = Ok("unload_all", <<>>, 0, "")
            /\ UNCHANGED plugin_paths
            /\ UNCHANGED <<daemonVars, callVars, pathVars, tickVars, codecVars, pomoVars, taskVars, storeVars>>

RegNext ==
    \/ \E dir \in Dirs : AddPluginPath(dir)
    \/ \E plugin \in StaticPlugins : RegisterStatic(plugin)
    \/ \E path \in LoadPaths : LoadDynamic(path)
    \/ DiscoverPlugins
    \/ \E name \in PluginNames : Execute(name)
    \/ UnloadAll

(***************************************************************************)
(* Daemon runtime: run_daemon_loop, the handle_connection tasks it spawns, *)
(* and the clients of the socket.                                          *)
(***************************************************************************)
MaxConns == 2
Conns == 1..MaxConns

Free == -1          \* the handler mutex is not held
MainId == 0         \* run_daemon_loop as owner of the handler mutex

\* "Connection closed without response", the message of receive_message's
\* zero-byte error, and the word handle_connection looks for in it
ClosedMessage == <<"Connection", "closed", "without", "response">>
\* a test that takes only the bare word for a benign close
IsBenignCloseExact(message) == message = <<"closed">>

\* Err(PluginError::IpcConnection { message, .. }) if message.contains("closed")
IsBenignClose(message) == Contains(message, <<"closed">>)

\* receive_message: one read, then decode. data is what the read returned:
\* "" for a zero-byte read, "command" or "response" for bytes that decode,
\* anything else for bytes that do not.
ReceiveMessage(data) ==
    IF data = ""
    THEN [ok |-> FALSE, kind |-> "IpcConnection", message |-> ClosedMessage]
    ELSE IF data \in {"command", "response"}
    THEN [ok |-> TRUE, kind |-> "", message |-> <<>>]
    ELSE [ok |-> FALSE, kind |-> "Json", message |-> <<>>]

Min(a, b) == IF a < b THEN a ELSE b

Spawned == {c \in Conns : tpc[c] # "none"}

\* the state in which run_daemon_loop is entered; a socket file left by an
\* earlier run may exist
DaemonEntry ==
    /\ pc = "entry"
    /\ listening = FALSE
    /\ lock = Free
    /\ active = {}
    /\ should_shutdown = FALSE
    /\ backlog = <<>>
    /\ cst = [c \in Conns |-> "idle"]
    /\ inbox = [c \in Conns |-> ""]
    /\ tpc = [c \in Conns |-> "none"]
    /\ result = [c \in Conns |-> ""]
    /\ handled = [c \in Conns |-> 0]
    /\ written = [c \in Conns |-> 0]
    /\ received = [c \in Conns |-> 0]
    /\ hist = [bound |-> FALSE, on_start |-> 0, on_shutdown |-> 0, ticked |-> FALSE,
               observed |-> FALSE, setters |-> {}, events_after |-> 0,
               accepts_after |-> 0, cleaned |-> FALSE]

mainVars == <<pc, listening, sock_file, lock, active, should_shutdown, hist>>
connVars == <<backlog, cst, inbox, tpc, result, handled, written, received>>

---------------------------------------------------------------------------
\* socket::cleanup_socket before binding
CleanupBefore ==
    /\ pc = "entry"
    /\ sock_file' = FALSE
    /\ pc' = "bind"
    /\ UNCHANGED <<listening, lock, active, should_shutdown, hist>>
    /\ UNCHANGED connVars
    /\ UNCHANGED <<regVars, callVars, pathVars, tickVars, codecVars, pomoVars, taskVars, storeVars>>

\* a bind that goes straight to the loop, without calling on_start
BindOkSkipStart ==
    /\ pc = "bind"
    /\ listening' = TRUE
    /\ sock_file' = TRUE
    /\ hist' = [hist EXCEPT !.bound = TRUE]
    /\ pc' = "check"
    /\ UNCHANGED <<lock, active, should_shutdown>>
    /\ UNCHANGED connVars
    /\ UNCHANGED <<regVars, callVars, pathVars, tickVars, codecVars, pomoVars, taskVars, storeVars>>

\* socket::create_listener(..)? : the listener is bound, or the error is returned
BindOk ==
    /\ pc = "bind"
    /\ listening' = TRUE
    /\ sock_file' = TRUE
    /\ hist' = [hist EXCEPT !.bound = TRUE]
    /\ pc' = "start_lock"
    /\ UNCHANGED <<lock, active, should_shutdown>>
    /\ UNCHANGED connVars
    /\ UNCHANGED <<regVars, callVars, pathVars, tickVars, codecVars, pomoVars, taskVars, storeVars>>

BindErr ==
    /\ pc = "bind"
    /\ pc' = "failed"
    /\ UNCHANGED <<listening, sock_file, lock, active, should_shutdown, hist>>
    /\ UNCHANGED connVars
    /\ UNCHANGED <<regVars, callVars, pathVars, tickVars, codecVars, pomoVars, taskVars, storeVars>>

\* handler.lock().await; h.on_start() begins
StartLock ==
    /\ pc = "start_lock"
    /\ lock = Free
    /\ lock' = MainId
    /\ active' = active \cup {<<MainId, "on_start">>}
    /\ hist' = [hist EXCEPT !.on_start = @ + 1]
    /\ pc' = "on_start"
    /\ UNCHANGED <<listening, sock_file, should_shutdown>>
    /\ UNCHANGED connVars
    /\ UNCHANGED <<regVars, callVars, pathVars, tickVars, codecVars, pomoVars, taskVars, storeVars>>

\* on_start returns and the guard is dropped
StartEnd ==
    /\ pc = "on_start"
    /\ active' = active \ {<<MainId, "on_start">>}
    /\ lock' = Free
    /\ pc' = "check"
    /\ UNCHANGED <<listening, sock_file, should_shutdown, hist>>
    /\ UNCHANGED connVars
    /\ UNCHANGED <<regVars, callVars, pathVars, tickVars, codecVars, pomoVars, taskVars, storeVars>>

\* a loop that, on seeing the flag, goes to the socket cleanup without calling
\* on_shutdown
LoopCheckSkipShutdown ==
    /\ pc = "check"
    /\ IF should_shutdown
       THEN /\ pc' = "cleanup"
            /\ hist' = [hist EXCEPT !.observed = TRUE]
       ELSE /\ pc' = "select"
            /\ UNCHANGED hist
    /\ UNCHANGED <<listening, sock_file, lock, active, should_shutdown>>
    /\ UNCHANGED connVars
    /\ UNCHANGED <<regVars, callVars, pathVars, tickVars, codecVars, pomoVars, taskVars, storeVars>>

\* a loop that, with the flag set, still serves the connections already queued
\* before it breaks
LoopCheckDrain ==
    /\ pc = "check"
    /\ IF should_shutdown
       THEN /\ pc' = IF backlog = <<>> THEN "shutdown_lock" ELSE "select"
            /\ hist' = [hist EXCEPT !.observed = TRUE]
       ELSE /\ pc' = "select"
            /\ UNCHANGED hist
    /\ UNCHANGED <<listening, sock_file, lock, active, should_shutdown>>
    /\ UNCHANGED connVars
    /\ UNCHANGED <<regVars, callVars, pathVars, tickVars, codecVars, pomoVars, taskVars, storeVars>>

\* top of the loop: should_shutdown.load(); break when set
LoopCheck ==
    /\ pc = "check"
    /\ IF should_shutdown
       THEN /\ pc' = "shutdown_lock"
            /\ hist' = [hist EXCEPT !.observed = TRUE]
       ELSE /\ pc' = "select"
            /\ UNCHANGED hist
    /\ UNCHANGED <<listening, sock_file, lock, active, should_shutdown>>
    /\ UNCHANGED connVars
    /\ UNCHANGED <<regVars, callVars, pathVars, tickVars, codecVars, pomoVars, taskVars, storeVars>>

\* an event of the select is taken while the flag is already set
NoteEvent(h) == IF should_shutdown THEN [h EXCEPT !.events_after = Min(@ + 1, 2)] ELSE h

\* select!: interval.tick() completes; the branch then awaits the handler lock
SelectTick ==
    /\ pc = "select"
    /\ pc' = "tick_lock"
    /\ hist' = NoteEvent(hist)
    /\ UNCHANGED <<listening, sock_file, lock, active, should_shutdown>>
    /\ UNCHANGED connVars
    /\ UNCHANGED <<regVars, callVars, pathVars, tickVars, codecVars, pomoVars, taskVars, storeVars>>

\* select!: listener.accept() yields Ok(stream); the connection task is spawned
SelectAccept ==
    /\ pc = "select"
    /\ backlog # <<>>
    /\ tpc' = [tpc EXCEPT ![Head(backlog)] = "recv"]
    /\ backlog' = Tail(backlog)
    /\ hist' = IF should_shutdown
               THEN [NoteEvent(hist) EXCEPT !.accepts_after = Min(@ + 1, 2)]
               ELSE hist
    /\ pc' = "check"
    /\ UNCHANGED <<listening, sock_file, lock, active, should_shutdown>>
    /\ UNCHANGED <<cst, inbox, result, handled, written, received>>
    /\ UNCHANGED <<regVars, callVars, pathVars, tickVars, codecVars, pomoVars, taskVars, storeVars>>

\* select!: listener.accept() yields Err(e), which is printed
SelectAcceptErr ==
    /\ pc = "select"
    /\ hist' = NoteEvent(hist)
    /\ pc' = "check"
    /\ UNCHANGED <<listening, sock_file, lock, active, should_shutdown>>
    /\ UNCHANGED connVars
    /\ UNCHANGED <<regVars, callVars, pathVars, tickVars, codecVars, pomoVars, taskVars, storeVars>>

\* a tick branch that enters on_tick without waiting for the handler lock
TickLockNoWait ==
    /\ pc = "tick_lock"
    /\ lock' = MainId
    /\ active' = active \cup {<<MainId, "on_tick">>}
    /\ hist' = [hist EXCEPT !.ticked = TRUE]
    /\ pc' = "in_tick"
    /\ UNCHANGED <<listening, sock_file, should_shutdown>>
    /\ UNCHANGED connVars
    /\ UNCHANGED <<regVars, callVars, pathVars, tickVars, codecVars, pomoVars, taskVars, storeVars>>

\* tick branch: handler.lock().await; h.on_tick() begins
TickLock ==
    /\ pc = "tick_lock"
    /\ lock = Free
    /\ lock' = MainId
    /\ active' = active \cup {<<MainId, "on_tick">>}
    /\ hist' = [hist EXCEPT !.ticked = TRUE]
    /\ pc' = "in_tick"
    /\ UNCHANGED <<listening, sock_file, should_shutdown>>
    /\ UNCHANGED connVars
    /\ UNCHANGED <<regVars, callVars, pathVars, tickVars, codecVars, pomoVars, taskVars, storeVars>>

\* a tick branch after which the loop selects again without re-checking the flag
TickEndNoRecheck ==
    /\ pc = "in_tick"
    /\ active' = active \ {<<MainId, "on_tick">>}
    /\ lock' = Free
    /\ pc' = "select"
    /\ UNCHANGED <<listening, sock_file, should_shutdown, hist>>
    /\ UNCHANGED connVars
    /\ UNCHANGED <<regVars, callVars, pathVars, tickVars, codecVars, pomoVars, taskVars, storeVars>>

\* on_tick completes and the guard is dropped
TickEnd ==
    /\ pc = "in_tick"
    /\ active' = active \ {<<MainId, "on_tick">>}
    /\ lock' = Free
    /\ pc' = "check"
    /\ UNCHANGED <<listening, sock_file, should_shutdown, hist>>
    /\ UNCHANGED connVars
    /\ UNCHANGED <<regVars, callVars, pathVars, tickVars, codecVars, pomoVars, taskVars, storeVars>>

\* after the loop: handler.lock().await; h.on_shutdown() begins
ShutdownLock ==
    /\ pc = "shutdown_lock"
    /\ lock = Free
    /\ lock' = MainId
    /\ active' = active \cup {<<MainId, "on_shutdown">>}
    /\ hist' = [hist EXCEPT !.on_shutdown = Min(@ + 1, 2)]
    /\ pc' = "in_shutdown"
    /\ UNCHANGED <<listening, sock_file, should_shutdown>>
    /\ UNCHANGED connVars
    /\ UNCHANGED <<regVars, callVars, pathVars, tickVars, codecVars, pomoVars, taskVars, storeVars>>

\* on_shutdown returns and the guard is dropped
ShutdownEnd ==
    /\ pc = "in_shutdown"
    /\ active' = active \ {<<MainId, "on_shutdown">>}
    /\ lock' = Free
    /\ pc' = "cleanup"
    /\ UNCHANGED <<listening, sock_file, should_shutdown, hist>>
    /\ UNCHANGED connVars
    /\ UNCHANGED <<regVars, callVars, pathVars, tickVars, codecVars, pomoVars, taskVars, storeVars>>

\* socket::cleanup_socket after on_shutdown
CleanupAfter ==
    /\ pc = "cleanup"
    /\ sock_file' = FALSE
    /\ hist' = [hist EXCEPT !.cleaned = TRUE]
    /\ pc' = "return"
    /\ UNCHANGED <<listening, lock, active, should_shutdown>>
    /\ UNCHANGED connVars
    /\ UNCHANGED <<regVars, callVars, pathVars, tickVars, codecVars, pomoVars, taskVars, storeVars>>

\* Ok(()) is returned; the listener goes out of scope
Return ==
    /\ pc = "return"
    /\ listening' = FALSE
    /\ pc' = "done"
    /\ UNCHANGED <<sock_file, lock, active, should_shutdown, hist>>
    /\ UNCHANGED connVars
    /\ UNCHANGED <<regVars, callVars, pathVars, tickVars, codecVars, pomoVars, taskVars, storeVars>>

\* The connection tasks are spawned detached (the JoinHandle of tokio::spawn
\* is discarded) and run_daemon_loop returns without awaiting them. When the
\* caller then leaves the runtime (block_on returns, the process exits), tokio
\* drops every task that is suspended at an await: in receive_message, at
\* handler.lock(), inside handle_command (its guard is released), or in the
\* write of send_message. A task between the write and the store has nothing
\* left to await and runs to its end.
Suspended == {"recv", "lock", "handling", "send"}

RuntimeShutdown ==
    /\ pc = "done"
    /\ \E c \in Conns : tpc[c] \in Suspended
    /\ tpc' = [c \in Conns |->
                 IF tpc[c] = "recv" THEN "dropped"
                 ELSE IF tpc[c] \in Suspended THEN "cut"
                 ELSE tpc[c]]
    /\ lock' = IF lock \in Conns THEN Free ELSE lock
    /\ active' = {a \in active : a[1] \notin Conns}
    /\ UNCHANGED <<pc, listening, sock_file, should_shutdown, hist>>
    /\ UNCHANGED <<backlog, cst, inbox, result, handled, written, received>>
    /\ UNCHANGED <<regVars, callVars, pathVars, tickVars, codecVars, pomoVars, taskVars, storeVars>>

---------------------------------------------------------------------------
\* a connection task for which an undecodable message is fatal to the daemon:
\* it sets the shutdown flag
TaskReceiveFatal(c) ==
    /\ tpc[c] = "recv"
    /\ inbox[c] # "" \/ cst[c] = "closed"
    /\ LET r == ReceiveMessage(inbox[c])
       IN  /\ tpc' = [tpc EXCEPT ![c] =
                        IF r.ok THEN "lock"
                        ELSE IF r.kind = "IpcConnection" /\ IsBenignClose(r.message) THEN "ok"
                        ELSE "err"]
           /\ should_shutdown' = (should_shutdown \/ r.kind = "Json")
    /\ UNCHANGED <<pc, listening, sock_file, lock, active, hist>>
    /\ UNCHANGED <<backlog, cst, inbox, result, handled, written, received>>
    /\ UNCHANGED <<regVars, callVars, pathVars, tickVars, codecVars, pomoVars, taskVars, storeVars>>

\* handle_connection: receive_message. One read of what the client wrote:
\* a command decodes; anything else fails to decode and the error is
\* returned; a zero-byte read (the peer closed without writing) is the
\* IpcConnection error whose message contains "closed", for which Ok(()) is
\* returned
TaskReceive(c) ==
    /\ tpc[c] = "recv"
    /\ inbox[c] # "" \/ cst[c] = "closed"
    /\ LET r == ReceiveMessage(inbox[c])
       IN  tpc' = [tpc EXCEPT ![c] =
                     IF r.ok THEN "lock"
                     ELSE IF r.kind = "IpcConnection" /\ IsBenignClose(r.message) THEN "ok"
                     ELSE "err"]
    /\ UNCHANGED mainVars
    /\ UNCHANGED <<backlog, cst, inbox, result, handled, written, received>>
    /\ UNCHANGED <<regVars, callVars, pathVars, tickVars, codecVars, pomoVars, taskVars, storeVars>>

\* a connection task that handles its command a second time when the lock is
\* free again
TaskLockAgain(c) ==
    /\ tpc[c] \in {"lock", "send"}
    /\ lock = Free
    /\ lock' = c
    /\ active' = active \cup {<<c, "handle_command">>}
    /\ handled' = [handled EXCEPT ![c] = Min(@ + 1, 2)]
    /\ tpc' = [tpc EXCEPT ![c] = "handling"]
    /\ UNCHANGED <<pc, listening, sock_file, should_shutdown, hist>>
    /\ UNCHANGED <<backlog, cst, inbox, result, written, received>>
    /\ UNCHANGED <<regVars, callVars, pathVars, tickVars, codecVars, pomoVars, taskVars, storeVars>>

\* handle_connection: handler.lock().await; h.handle_command(cmd) begins
TaskLock(c) ==
    /\ tpc[c] = "lock"
    /\ lock = Free
    /\ lock' = c
    /\ active' = active \cup {<<c, "handle_command">>}
    /\ handled' = [handled EXCEPT ![c] = @ + 1]
    /\ tpc' = [tpc EXCEPT ![c] = "handling"]
    /\ UNCHANGED <<pc, listening, sock_file, should_shutdown, hist>>
    /\ UNCHANGED <<backlog, cst, inbox, result, written, received>>
    /\ UNCHANGED <<regVars, callVars, pathVars, tickVars, codecVars, pomoVars, taskVars, storeVars>>

\* a connection task that sets the flag as soon as the handler asks for
\* shutdown, before the response is sent
TaskHandleEndEagerFlag(c, res) ==
    /\ tpc[c] = "handling"
    /\ result' = [result EXCEPT ![c] = res]
    /\ active' = active \ {<<c, "handle_command">>}
    /\ lock' = Free
    /\ tpc' = [tpc EXCEPT ![c] = "send"]
    /\ should_shutdown' = (should_shutdown \/ res = "Shutdown")
    /\ hist' = IF res = "Shutdown" THEN [hist EXCEPT !.setters = @ \cup {c}] ELSE hist
    /\ UNCHANGED <<pc, listening, sock_file>>
    /\ UNCHANGED <<backlog, cst, inbox, handled, written, received>>
    /\ UNCHANGED <<regVars, callVars, pathVars, tickVars, codecVars, pomoVars, taskVars, storeVars>>

\* a connection task that keeps the handler guard while it writes the response
TaskHandleEndKeepLock(c, res) ==
    /\ tpc[c] = "handling"
    /\ result' = [result EXCEPT ![c] = res]
    /\ active' = active \ {<<c, "handle_command">>}
    /\ tpc' = [tpc EXCEPT ![c] = "send"]
    /\ UNCHANGED <<pc, listening, sock_file, lock, should_shutdown, hist>>
    /\ UNCHANGED <<backlog, cst, inbox, handled, written, received>>
    /\ UNCHANGED <<regVars, callVars, pathVars, tickVars, codecVars, pomoVars, taskVars, storeVars>>

\* handle_command returns the handler's HandleResult and the guard is dropped
TaskHandleEnd(c, res) ==
    /\ tpc[c] = "handling"
    /\ result' = [result EXCEPT ![c] = res]
    /\ active' = active \ {<<c, "handle_command">>}
    /\ lock' = Free
    /\ tpc' = [tpc EXCEPT ![c] = "send"]
    /\ UNCHANGED <<pc, listening, sock_file, should_shutdown, hist>>
    /\ UNCHANGED <<backlog, cst, inbox, handled, written, received>>
    /\ UNCHANGED <<regVars, callVars, pathVars, tickVars, codecVars, pomoVars, taskVars, storeVars>>

\* send_message(stream, &response).await? : the write succeeds while the
\* client end is open and fails once the client has closed it; on failure the
\* error is returned from handle_connection
TaskSend(c) ==
    /\ tpc[c] = "send"
    /\ IF cst[c] \in {"closed", "failed"}
       THEN /\ tpc' = [tpc EXCEPT ![c] = "err"]
            /\ UNCHANGED written
       ELSE /\ written' = [written EXCEPT ![c] = @ + 1]
            /\ tpc' = [tpc EXCEPT ![c] = IF result[c] = "Shutdown" THEN "store" ELSE "ok"]
    /\ UNCHANGED mainVars
    /\ UNCHANGED <<backlog, cst, inbox, result, handled, received>>
    /\ UNCHANGED <<regVars, callVars, pathVars, tickVars, codecVars, pomoVars, taskVars, storeVars>>

\* shutdown_flag.store(true) of the HandleResult::Shutdown arm
TaskStore(c) ==
    /\ tpc[c] = "store"
    /\ should_shutdown' = TRUE
    /\ hist' = [hist EXCEPT !.setters = @ \cup {c}]
    /\ tpc' = [tpc EXCEPT ![c] = "ok"]
    /\ UNCHANGED <<pc, listening, sock_file, lock, active>>
    /\ UNCHANGED <<backlog, cst, inbox, result, handled, written, received>>
    /\ UNCHANGED <<regVars, callVars, pathVars, tickVars, codecVars, pomoVars, taskVars, storeVars>>

---------------------------------------------------------------------------
\* A client: socket::connect succeeds while a listener is bound
ClientConnect(c) ==
    /\ cst[c] = "idle"
    /\ listening
    /\ cst' = [cst EXCEPT ![c] = "connected"]
    /\ backlog' = Append(backlog, c)
    /\ UNCHANGED mainVars
    /\ UNCHANGED <<inbox, tpc, result, handled, written, received>>
    /\ UNCHANGED <<regVars, callVars, pathVars, tickVars, codecVars, pomoVars, taskVars, storeVars>>

\* the client's one write: an encoded command, or bytes that do not decode
ClientSend(c, bytes) ==
    /\ cst[c] = "connected"
    /\ cst' = [cst EXCEPT ![c] = "sent"]
    /\ inbox' = [inbox EXCEPT ![c] = bytes]
    /\ UNCHANGED mainVars
    /\ UNCHANGED <<backlog, tpc, result, handled, written, received>>
    /\ UNCHANGED <<regVars, callVars, pathVars, tickVars, codecVars, pomoVars, taskVars, storeVars>>

\* the client reads the response written to its connection
ClientReceive(c) ==
    /\ cst[c] = "sent"
    /\ written[c] > received[c]
    /\ received' = [received EXCEPT ![c] = @ + 1]
    /\ cst' = [cst EXCEPT ![c] = "got"]
    /\ UNCHANGED mainVars
    /\ UNCHANGED <<backlog, inbox, tpc, result, handled, written>>
    /\ UNCHANGED <<regVars, callVars, pathVars, tickVars, codecVars, pomoVars, taskVars, storeVars>>

\* the client's read finds the server end closed with nothing written
ClientReceiveEof(c) ==
    /\ cst[c] = "sent"
    /\ written[c] = 0
    /\ \/ tpc[c] \in {"ok", "err", "cut", "dropped"}
       \/ tpc[c] = "none" /\ ~listening
    /\ cst' = [cst EXCEPT ![c] = IF ReceiveMessage("").ok THEN "got" ELSE "failed"]
    /\ UNCHANGED mainVars
    /\ UNCHANGED <<backlog, inbox, tpc, result, handled, written, received>>
    /\ UNCHANGED <<regVars, callVars, pathVars, tickVars, codecVars, pomoVars, taskVars, storeVars>>

\* the client drops its end before the exchange is over
ClientClose(c) ==
    /\ cst[c] \in {"connected", "sent"}
    /\ cst' = [cst EXCEPT ![c] = "closed"]
    /\ UNCHANGED mainVars
    /\ UNCHANGED <<backlog, inbox, tpc, result, handled, written, received>>
    /\ UNCHANGED <<regVars, callVars, pathVars, tickVars, codecVars, pomoVars, taskVars, storeVars>>

---------------------------------------------------------------------------
MainNext ==
    \/ CleanupBefore
    \/ BindOk
    \/ BindErr
    \/ StartLock
    \/ StartEnd
    \/ LoopCheck
    \/ SelectTick
    \/ SelectAccept
    \/ SelectAcceptErr
    \/ TickLock
    \/ TickEnd
    \/ ShutdownLock
    \/ ShutdownEnd
    \/ CleanupAfter
    \/ Return

TaskNext(c) ==
    \/ TaskReceive(c)
    \/ TaskLock(c)
    \/ \E res \in {"Response", "Shutdown"} : TaskHandleEnd(c, res)
    \/ TaskSend(c)
    \/ TaskStore(c)

ClientNext(c) ==
    \/ ClientConnect(c)
    \/ \E bytes \in {"command", "garbage"} : ClientSend(c, bytes)
    \/ ClientReceive(c)
    \/ ClientReceiveEof(c)
    \/ ClientClose(c)

DaemonNext ==
    \/ MainNext
    \/ RuntimeShutdown
    \/ \E c \in Conns : TaskNext(c)
    \/ \E c \in Conns : ClientNext(c)

(***************************************************************************)
(* One call of send_command_with_autospawn, talking to the daemon above    *)
(* over connection CallConn. The daemon process is absent (pc = "off")     *)
(* until the call spawns it, or is already serving.                        *)
(***************************************************************************)
CallConn == 1

\* DaemonClientConfig::new: the default startup wait
startup_wait_ms == 500

FailedAfterStart == <<"Failed", "to", "connect", "after", "starting", "daemon">>

NoError == [kind |-> "", message |-> <<>>, source |-> ""]

\* the call has not begun
CallEntry ==
    call = [pc |-> "connect", conn_err |-> FALSE, connects |-> 0, spawns |-> 0,
            children |-> 0, sleeps |-> 0, slept_ms |-> 0, sends |-> 0, recvs |-> 0,
            ret |-> NoError]

\* no daemon process exists; a socket file left by an earlier run may
NoDaemon ==
    /\ pc = "off"
    /\ listening = FALSE
    /\ lock = Free
    /\ active = {}
    /\ should_shutdown = FALSE
    /\ backlog = <<>>
    /\ cst = [c \in Conns |-> "idle"]
    /\ inbox = [c \in Conns |-> ""]
    /\ tpc = [c \in Conns |-> "none"]
    /\ result = [c \in Conns |-> ""]
    /\ handled = [c \in Conns |-> 0]
    /\ written = [c \in Conns |-> 0]
    /\ received = [c \in Conns |-> 0]
    /\ hist = [bound |-> FALSE, on_start |-> 0, on_shutdown |-> 0, ticked |-> FALSE,
               observed |-> FALSE, setters |-> {}, events_after |-> 0,
               accepts_after |-> 0, cleaned |-> FALSE]

\* a daemon started earlier is in its loop: bound, on_start done, no
\* connection yet
DaemonServing ==
    /\ pc = "check"
    /\ listening = TRUE
    /\ sock_file = TRUE
    /\ lock = Free
    /\ active = {}
    /\ should_shutdown = FALSE
    /\ backlog = <<>>
    /\ cst = [c \in Conns |-> "idle"]
    /\ inbox = [c \in Conns |-> ""]
    /\ tpc = [c \in Conns |-> "none"]
    /\ result = [c \in Conns |-> ""]
    /\ handled = [c \in Conns |-> 0]
    /\ written = [c \in Conns |-> 0]
    /\ received = [c \in Conns |-> 0]
    /\ hist = [bound |-> TRUE, on_start |-> 1, on_shutdown |-> 0, ticked |-> FALSE,
               observed |-> FALSE, setters |-> {}, events_after |-> 0,
               accepts_after |-> 0, cleaned |-> FALSE]

\* the server end of the call's connection is gone
ServerEndClosed ==
    \/ tpc[CallConn] \in {"ok", "err", "cut", "dropped"}
    \/ tpc[CallConn] = "none" /\ cst[CallConn] # "idle" /\ ~listening

\* socket::connect(&config.socket_path).await, first attempt: Ok(s) => s, or
\* Err(conn_err) => the spawn branch
CallConnect ==
    /\ call.pc = "connect"
    /\ IF listening
       THEN /\ cst' = [cst EXCEPT ![CallConn] = "connected"]
            /\ backlog' = Append(backlog, CallConn)
            /\ call' = [call EXCEPT !.connects = @ + 1, !.pc = "send"]
       ELSE /\ call' = [call EXCEPT !.connects = @ + 1, !.conn_err = TRUE, !.pc = "spawn"]
            /\ UNCHANGED <<cst, backlog>>
    /\ UNCHANGED mainVars
    /\ UNCHANGED <<inbox, tpc, result, handled, written, received>>
    /\ UNCHANGED <<regVars, pathVars, tickVars, codecVars, pomoVars, taskVars, storeVars>>

\* a call that ignores the result of spawn_daemon_process and waits anyway
CallSpawnIgnoreError(spawned) ==
    /\ call.pc = "spawn"
    /\ call' = [call EXCEPT !.spawns = @ + 1, !.pc = "sleep",
                            !.children = IF spawned THEN @ + 1 ELSE @]
    /\ pc' = IF spawned /\ pc = "off" THEN "entry" ELSE pc
    /\ UNCHANGED <<listening, sock_file, lock, active, should_shutdown, hist>>
    /\ UNCHANGED connVars
    /\ UNCHANGED <<regVars, pathVars, tickVars, codecVars, pomoVars, taskVars, storeVars>>

\* spawn_daemon_process(..).map_err(daemon_not_running_with_source)? : the
\* child process starts at the entry of its daemon loop, or the spawn error is
\* returned wrapped in DaemonNotRunning
CallSpawn(spawned) ==
    /\ call.pc = "spawn"
    /\ IF spawned
       THEN /\ call' = [call EXCEPT !.spawns = @ + 1, !.children = @ + 1, !.pc = "sleep"]
            /\ pc' = IF pc = "off" THEN "entry" ELSE pc
       ELSE /\ call' = [call EXCEPT !.spawns = @ + 1, !.pc = "done",
                                    !.ret = [kind |-> "DaemonNotRunning", message |-> <<>>,
                                             source |-> "spawn_err"]]
            /\ UNCHANGED pc
    /\ UNCHANGED <<listening, sock_file, lock, active, should_shutdown, hist>>
    /\ UNCHANGED connVars
    /\ UNCHANGED <<regVars, pathVars, tickVars, codecVars, pomoVars, taskVars, storeVars>>

\* tokio::time::sleep(Duration::from_millis(config.startup_wait_ms)).await
CallSleep ==
    /\ call.pc = "sleep"
    /\ call' = [call EXCEPT !.sleeps = @ + 1, !.slept_ms = @ + startup_wait_ms, !.pc = "retry"]
    /\ UNCHANGED daemonVars
    /\ UNCHANGED <<regVars, pathVars, tickVars, codecVars, pomoVars, taskVars, storeVars>>

\* a retry that, failing, goes back to spawn the daemon again
CallRetryRespawn ==
    /\ call.pc = "retry"
    /\ IF listening
       THEN /\ cst' = [cst EXCEPT ![CallConn] = "connected"]
            /\ backlog' = Append(backlog, CallConn)
            /\ call' = [call EXCEPT !.connects = @ + 1, !.pc = "send"]
       ELSE /\ call' = [call EXCEPT !.connects = Min(@ + 1, 3),
                                    !.pc = IF call.spawns < 2 THEN "spawn" ELSE "done"]
            /\ UNCHANGED <<cst, backlog>>
    /\ UNCHANGED mainVars
    /\ UNCHANGED <<inbox, tpc, result, handled, written, received>>
    /\ UNCHANGED <<regVars, pathVars, tickVars, codecVars, pomoVars, taskVars, storeVars>>

\* a retry that reports the failure whether or not the daemon is listening
CallRetryGivesUp ==
    /\ call.pc = "retry"
    /\ call' = [call EXCEPT !.connects = @ + 1, !.pc = "done",
                            !.ret = [kind |-> "IpcConnection", message |-> FailedAfterStart,
                                     source |-> "conn_err"]]
    /\ UNCHANGED daemonVars
    /\ UNCHANGED <<regVars, pathVars, tickVars, codecVars, pomoVars, taskVars, storeVars>>

\* the second socket::connect; on failure
\* ipc_connection_with_source("Failed to connect after starting daemon", conn_err)
\* is returned
CallRetry ==
    /\ call.pc = "retry"
    /\ IF listening
       THEN /\ cst' = [cst EXCEPT ![CallConn] = "connected"]
            /\ backlog' = Append(backlog, CallConn)
            /\ call' = [call EXCEPT !.connects = @ + 1, !.pc = "send"]
       ELSE /\ call' = [call EXCEPT !.connects = @ + 1, !.pc = "done",
                                    !.ret = [kind |-> "IpcConnection", message |-> FailedAfterStart,
                                             source |-> "conn_err"]]
            /\ UNCHANGED <<cst, backlog>>
    /\ UNCHANGED mainVars
    /\ UNCHANGED <<inbox, tpc, result, handled, written, received>>
    /\ UNCHANGED <<regVars, pathVars, tickVars, codecVars, pomoVars, taskVars, storeVars>>

\* send_message(&mut stream, command).await? : the encoded command is written
\* once; the daemon's Command type decodes it ("command") or does not
\* ("garbage"). A write to a connection whose server end is gone fails and
\* the Io error is returned.
CallSend(bytes) ==
    /\ call.pc = "send"
    /\ IF ServerEndClosed
       THEN /\ call' = [call EXCEPT !.sends = @ + 1, !.pc = "done",
                                    !.ret = [kind |-> "Io", message |-> <<>>, source |-> ""]]
            /\ cst' = [cst EXCEPT ![CallConn] = "failed"]
            /\ UNCHANGED inbox
       ELSE /\ call' = [call EXCEPT !.sends = @ + 1, !.pc = "recv"]
            /\ cst' = [cst EXCEPT ![CallConn] = "sent"]
            /\ inbox' = [inbox EXCEPT ![CallConn] = bytes]
    /\ UNCHANGED mainVars
    /\ UNCHANGED <<backlog, tpc, result, handled, written, received>>
    /\ UNCHANGED <<regVars, pathVars, tickVars, codecVars, pomoVars, taskVars, storeVars>>

\* a call that reads a second time from its connection before it returns
CallReceiveTwice ==
    /\ call.pc = "recv"
    /\ written[CallConn] > received[CallConn] \/ ServerEndClosed
    /\ call' = [call EXCEPT !.recvs = Min(@ + 1, 2),
                            !.pc = IF call.recvs = 0 THEN "recv" ELSE "done",
                            !.ret = [kind |-> "Ok", message |-> <<>>, source |-> ""]]
    /\ received' = [received EXCEPT ![CallConn] = Min(@ + 1, 2)]
    /\ cst' = [cst EXCEPT ![CallConn] = "got"]
    /\ UNCHANGED mainVars
    /\ UNCHANGED <<backlog, inbox, tpc, result, handled, written>>
    /\ UNCHANGED <<regVars, pathVars, tickVars, codecVars, pomoVars, taskVars, storeVars>>

\* receive_message(&mut stream, config.buffer_size).await? ; Ok(resp): the one
\* read returns the response the daemon wrote, or zero bytes when the server
\* end was closed with nothing written, and receive_message's result is
\* returned
CallReceive ==
    /\ call.pc = "recv"
    /\ written[CallConn] > received[CallConn] \/ ServerEndClosed
    /\ LET r == ReceiveMessage(IF written[CallConn] > received[CallConn]
                                THEN "response" ELSE "")
       IN  /\ call' = [call EXCEPT !.recvs = @ + 1, !.pc = "done",
                                   !.ret = IF r.ok
                                           THEN [kind |-> "Ok", message |-> <<>>, source |-> ""]
                                           ELSE [kind |-> r.kind, message |-> r.message,
                                                 source |-> ""]]
           /\ received' = [received EXCEPT ![CallConn] = IF r.ok THEN @ + 1 ELSE @]
           /\ cst' = [cst EXCEPT ![CallConn] = IF r.ok THEN "got" ELSE "failed"]
    /\ UNCHANGED mainVars
    /\ UNCHANGED <<backlog, inbox, tpc, result, handled, written>>
    /\ UNCHANGED <<regVars, pathVars, tickVars, codecVars, pomoVars, taskVars, storeVars>>

CallNext ==
    \/ CallConnect
    \/ \E spawned \in BOOLEAN : CallSpawn(spawned)
    \/ CallSleep
    \/ CallRetry
    \/ \E bytes \in {"command", "garbage"} : CallSend(bytes)
    \/ CallReceive

AutoNext ==
    \/ CallNext
    \/ MainNext
    \/ \E c \in Conns : TaskNext(c)

(***************************************************************************)
(* Several clients and the daemon processes they spawn, all configured     *)
(* with the same socket path. Only what touches the path is kept of each:  *)
(* the client's two connects and its spawn, the daemon's cleanup_socket,   *)
(* create_listener, loop exit and final cleanup_socket.                    *)
(***************************************************************************)
MaxProcs == 2
Procs == 1..MaxProcs

NoOwner == 0

PathEntry ==
    /\ rpc = [d \in Procs |-> "off"]
    /\ path_owner = NoOwner
    /\ kpc = [k \in Procs |-> "connect"]

\* socket::connect reaches a listener: the file at the path is the socket of
\* a process whose listener is alive
Connectable ==
    /\ path_owner # NoOwner
    /\ rpc[path_owner] \in {"running", "cleanup"}

\* send_command_with_autospawn, first socket::connect
FirstConnect(k) ==
    /\ kpc[k] = "connect"
    /\ kpc' = [kpc EXCEPT ![k] = IF Connectable THEN "connected" ELSE "spawn"]
    /\ UNCHANGED <<rpc, path_owner>>
    /\ UNCHANGED <<regVars, daemonVars, callVars, tickVars, codecVars, pomoVars, taskVars, storeVars>>

\* spawn_daemon_process: client k's child is daemon process k
SpawnDaemon(k, spawned) ==
    /\ kpc[k] = "spawn"
    /\ IF spawned
       THEN /\ kpc' = [kpc EXCEPT ![k] = "retry"]
            /\ rpc' = [rpc EXCEPT ![k] = "entry"]
       ELSE /\ kpc' = [kpc EXCEPT ![k] = "failed"]
            /\ UNCHANGED rpc
    /\ UNCHANGED path_owner
    /\ UNCHANGED <<regVars, daemonVars, callVars, tickVars, codecVars, pomoVars, taskVars, storeVars>>

\* the startup wait is over: second socket::connect
RetryConnect(k) ==
    /\ kpc[k] = "retry"
    /\ kpc' = [kpc EXCEPT ![k] = IF Connectable THEN "connected" ELSE "failed"]
    /\ UNCHANGED <<rpc, path_owner>>
    /\ UNCHANGED <<regVars, daemonVars, callVars, tickVars, codecVars, pomoVars, taskVars, storeVars>>

\* run_daemon_loop: socket::cleanup_socket(&config.socket_path) removes the
\* file at the path if there is one, whoever created it
CleanupSocketBefore(d) ==
    /\ rpc[d] = "entry"
    /\ path_owner' = NoOwner
    /\ rpc' = [rpc EXCEPT ![d] = "bind"]
    /\ UNCHANGED kpc
    /\ UNCHANGED <<regVars, daemonVars, callVars, tickVars, codecVars, pomoVars, taskVars, storeVars>>

\* run_daemon_loop: socket::create_listener(..)? binds the path when no file
\* is in the way, else returns the error
CreateListener(d) ==
    /\ rpc[d] = "bind"
    /\ IF path_owner = NoOwner
       THEN /\ path_owner' = d
            /\ rpc' = [rpc EXCEPT ![d] = "running"]
       ELSE /\ rpc' = [rpc EXCEPT ![d] = "failed"]
            /\ UNCHANGED path_owner
    /\ UNCHANGED kpc
    /\ UNCHANGED <<regVars, daemonVars, callVars, tickVars, codecVars, pomoVars, taskVars, storeVars>>

\* run_daemon_loop: the loop reads the flag set and breaks; on_shutdown runs
LoopExit(d) ==
    /\ rpc[d] = "running"
    /\ rpc' = [rpc EXCEPT ![d] = "cleanup"]
    /\ UNCHANGED <<path_owner, kpc>>
    /\ UNCHANGED <<regVars, daemonVars, callVars, tickVars, codecVars, pomoVars, taskVars, storeVars>>

\* run_daemon_loop: the final socket::cleanup_socket, then Ok(()) and the
\* listener is dropped
CleanupSocketAfter(d) ==
    /\ rpc[d] = "cleanup"
    /\ path_owner' = NoOwner
    /\ rpc' = [rpc EXCEPT ![d] = "done"]
    /\ UNCHANGED kpc
    /\ UNCHANGED <<regVars, daemonVars, callVars, tickVars, codecVars, pomoVars, taskVars, storeVars>>

PathNext ==
    \/ \E k \in Procs : FirstConnect(k)
    \/ \E k \in Procs : \E spawned \in BOOLEAN : SpawnDaemon(k, spawned)
    \/ \E k \in Procs : RetryConnect(k)
    \/ \E d \in Procs : CleanupSocketBefore(d)
    \/ \E d \in Procs : CreateListener(d)
    \/ \E d \in Procs : LoopExit(d)
    \/ \E d \in Procs : CleanupSocketAfter(d)

(***************************************************************************)
(* The tick interval of run_daemon_loop against the clock.  No client      *)
(* connects, so the select! only ever takes the tick branch and the        *)
(* shutdown flag stays false.  The clock counts in units of 1/TicksPerSec  *)
(* of a second.                                                            *)
(***************************************************************************)
MaxTime == 12
TicksPerSec == 2
MaxStartup == 2

\* DaemonConfig::tick_interval_secs values (1 is the default)
TickIntervals == {1, 2}

\* Duration::from_secs(config.tick_interval_secs), in clock units
Period == tick.secs * TicksPerSec

\* the loop has not been entered
TickOff == [pos |-> "off", secs |-> 1, now |-> 0, started |-> 0, deadline |-> 0, count |-> 0]

\* run_daemon_loop has been called and is setting up (cleanup, bind, on_start)
TickEntry(secs) == [TickOff EXCEPT !.pos = "starting", !.secs = secs]

\* time::interval(period): the first tick completes immediately
IntervalNew ==
    /\ tick.pos = "starting"
    /\ tick' = [tick EXCEPT !.pos = "select", !.started = tick.now, !.deadline = tick.now]
    /\ UNCHANGED <<regVars, daemonVars, callVars, pathVars, codecVars, pomoVars, taskVars, storeVars>>

\* an interval that schedules the next tick one period after the late one
IntervalTickDelay ==
    /\ tick.pos = "select"
    /\ tick.now >= tick.deadline
    /\ tick' = [tick EXCEPT !.pos = "on_tick", !.deadline = tick.now + Period]
    /\ UNCHANGED <<regVars, daemonVars, callVars, pathVars, codecVars, pomoVars, taskVars, storeVars>>

\* interval.tick() completes once its deadline has passed; the next deadline
\* is one period after this one (MissedTickBehavior::Burst, the default)
IntervalTick ==
    /\ tick.pos = "select"
    /\ tick.now >= tick.deadline
    /\ tick' = [tick EXCEPT !.pos = "on_tick", !.deadline = tick.deadline + Period]
    /\ UNCHANGED <<regVars, daemonVars, callVars, pathVars, codecVars, pomoVars, taskVars, storeVars>>

\* handler.lock() is free (no connection task exists); on_tick increments
\* the handler's counter and the loop goes back to the select!
OnTick ==
    /\ tick.pos = "on_tick"
    /\ tick' = [tick EXCEPT !.pos = "select", !.count = tick.count + 1]
    /\ UNCHANGED <<regVars, daemonVars, callVars, pathVars, codecVars, pomoVars, taskVars, storeVars>>

\* the deadline of the oldest tick whose on_tick has not completed
OldestDue == IF tick.pos = "on_tick" THEN tick.deadline - Period ELSE tick.deadline

\* the clock advances by one unit.  The loop is scheduled with bounded
\* latency: the setup takes at most MaxStartup units, and a due tick is
\* served before a whole further period has passed.
ClockAdvance ==
    /\ tick.pos # "off"
    /\ tick.now < MaxTime
    /\ tick.pos = "starting" => tick.now < MaxStartup
    /\ tick.pos # "starting" => tick.now + 1 < OldestDue + Period
    /\ tick' = [tick EXCEPT !.now = tick.now + 1]
    /\ UNCHANGED <<regVars, daemonVars, callVars, pathVars, codecVars, pomoVars, taskVars, storeVars>>

TickNext ==
    \/ IntervalNew
    \/ IntervalTick
    \/ OnTick
    \/ ClockAdvance

(***************************************************************************)
(* send_message / receive_message over one stream, for the messages of the *)
(* pomodoro daemon.  A message is serialized by serde_json::to_vec and     *)
(* deserialized by serde_json::from_slice; both are computed here on the   *)
(* characters of the JSON text (all ASCII, so one character is one byte).  *)
(***************************************************************************)
\* the identifiers serde derives from the enum definitions, and JSON's literals
Chars ==
    [Start |-> <<"S", "t", "a", "r", "t">>,
     Status |-> <<"S", "t", "a", "t", "u", "s">>,
     Stop |-> <<"S", "t", "o", "p">>,
     Pause |-> <<"P", "a", "u", "s", "e">>,
     Resume |-> <<"R", "e", "s", "u", "m", "e">>,
     Ping |-> <<"P", "i", "n", "g">>,
     Kill |-> <<"K", "i", "l", "l">>,
     Ok |-> <<"O", "k">>,
     Error |-> <<"E", "r", "r", "o", "r">>,
     Pong |-> <<"P", "o", "n", "g">>,
     Focus |-> <<"F", "o", "c", "u", "s">>,
     Break |-> <<"B", "r", "e", "a", "k">>,
     Idle |-> <<"I", "d", "l", "e">>,
     task_id |-> <<"t", "a", "s", "k", "_", "i", "d">>,
     focus_len |-> <<"f", "o", "c", "u", "s", "_", "l", "e", "n">>,
     break_len |-> <<"b", "r", "e", "a", "k", "_", "l", "e", "n">>,
     cycles |-> <<"c", "y", "c", "l", "e", "s">>,
     no_gui |-> <<"n", "o", "_", "g", "u", "i">>,
     no_sound |-> <<"n", "o", "_", "s", "o", "u", "n", "d">>,
     remaining_secs |-> <<"r", "e", "m", "a", "i", "n", "i", "n", "g", "_", "s", "e", "c", "s">>,
     is_running |-> <<"i", "s", "_", "r", "u", "n", "n", "i", "n", "g">>,
     mode |-> <<"m", "o", "d", "e">>,
     cycles_left |-> <<"c", "y", "c", "l", "e", "s", "_", "l", "e", "f", "t">>,
     true |-> <<"t", "r", "u", "e">>,
     false |-> <<"f", "a", "l", "s", "e">>,
     null |-> <<"n", "u", "l", "l">>]

UnitCommands == {"Status", "Stop", "Pause", "Resume", "Ping", "Kill"}
PomoModes == {"Focus", "Break", "Idle"}

\* the largest integer carried here; the u32 and u64 fields take values up to it
IntMax == 2147483647

\* String payloads of DaemonResponse::Ok / Error: plain text, text with a
\* quote, a backslash, a line break, and text that looks like JSON
Texts ==
    { <<>>,
      <<"o", "k">>,
      <<"a", "\"", "b">>,
      <<"c", "\\">>,
      <<"x", "\n", "y">>,
      <<"{", "\"", "P", "o", "n", "g", "\"", "}">> }

\* pub enum DaemonCommand
DaemonCommands ==
    [v : {"Start"}, task_id : {0, 12}, focus_len : {25, IntMax}, break_len : {5},
     cycles : {4}, no_gui : BOOLEAN, no_sound : BOOLEAN]
        \cup {[v |-> u] : u \in UnitCommands}

\* pub enum DaemonResponse
DaemonResponses ==
    [v : {"Ok", "Error"}, s : Texts]
        \cup [v : {"Status"}, remaining_secs : {0, 1500}, is_running : BOOLEAN,
              mode : PomoModes, cycles_left : {3}, task_id : {None, Some(0), Some(12)}]
        \cup {[v |-> "Pong"]}

MessageTypes == {"DaemonCommand", "DaemonResponse"}
Messages(ty) == IF ty = "DaemonCommand" THEN DaemonCommands ELSE DaemonResponses

\* buffer_size values: none, smaller than a struct variant, the default
BufferSizes == {0, 16, 64, 1024}

(* ---- serde_json::to_vec ---- *)
DigitChars == <<"0", "1", "2", "3", "4", "5", "6", "7", "8", "9">>

\* an unsigned integer is written in decimal without leading zeros
RECURSIVE ToDigits(_)
ToDigits(n) ==
    IF n < 10 THEN <<DigitChars[n + 1]>>
    ELSE ToDigits(n \div 10) \o <<DigitChars[(n % 10) + 1]>>

\* a string writer that copies every character as it is
EscapeNothing(s) == s

\* the characters of a string as serde_json writes them between the quotes
RECURSIVE Escape(_)
Escape(s) ==
    IF s = <<>> THEN <<>>
    ELSE LET c == Head(s)
             e == CASE c = "\"" -> <<"\\", "\"">>
                    [] c = "\\" -> <<"\\", "\\">>
                    [] c = "\n" -> <<"\\", "n">>
                    [] c = "\t" -> <<"\\", "t">>
                    [] OTHER -> <<c>>
         IN  e \o Escape(Tail(s))

JsonString(s) == <<"\"">> \o Escape(s) \o <<"\"">>
JsonBool(b) == IF b THEN Chars.true ELSE Chars.false
JsonOption(o) == IF o.some THEN ToDigits(o.val) ELSE Chars.null

Member(key, value) == JsonString(key) \o <<":">> \o value

\* an object: its members separated by commas, between braces
Object(members) ==
    LET RECURSIVE Commas(_)
        Commas(parts) ==
            IF Len(parts) = 0 THEN <<>>
            ELSE IF Len(parts) = 1 THEN parts[1]
            ELSE parts[1] \o <<",">> \o Commas(Tail(parts))
    IN  <<"{">> \o Commas(members) \o <<"}">>

\* #[derive(Serialize)] on an enum: a unit variant is its name as a string,
\* any other variant is an object with the name as its only key
UnitVariant(name) == JsonString(Chars[name])
Variant(name, content) == Object(<<Member(Chars[name], content)>>)

SerializeCommand(c) ==
    IF c.v = "Start"
    THEN Variant("Start", Object(<<
             Member(Chars.task_id, ToDigits(c.task_id)),
             Member(Chars.focus_len, ToDigits(c.focus_len)),
             Member(Chars.break_len, ToDigits(c.break_len)),
             Member(Chars.cycles, ToDigits(c.cycles)),
             Member(Chars.no_gui, JsonBool(c.no_gui)),
             Member(Chars.no_sound, JsonBool(c.no_sound))>>))
    ELSE UnitVariant(c.v)

SerializeResponse(r) ==
    CASE r.v \in {"Ok", "Error"} -> Variant(r.v, JsonString(r.s))
      [] r.v = "Status" ->
           Variant("Status", Object(<<
               Member(Chars.remaining_secs, ToDigits(r.remaining_secs)),
               Member(Chars.is_running, JsonBool(r.is_running)),
               Member(Chars.mode, UnitVariant(r.mode)),
               Member(Chars.cycles_left, ToDigits(r.cycles_left)),
               Member(Chars.task_id, JsonOption(r.task_id))>>))
      [] OTHER -> UnitVariant(r.v)

\* serde_json::to_vec(msg)
ToVec(ty, msg) == IF ty = "DaemonCommand" THEN SerializeCommand(msg) ELSE SerializeResponse(msg)

(* ---- serde_json::from_slice ---- *)
\* a JSON value as the parser builds it; kids are the members of an object,
\* each [k |-> key, v |-> value]
JNull == [t |-> "null", s |-> <<>>, n |-> 0, b |-> FALSE, kids |-> <<>>]

\* the text b parsed as one JSON value: [ok, v].  It is read from the left,
\* each step returning the value and the position after it; the end of the
\* input inside a value, a raw control character in a string, an unknown
\* escape, a leading zero, a fraction or exponent (no field here is a float)
\* and anything but whitespace after the value are errors.
ParseJson(b) ==
    LET Fail == [ok |-> FALSE, v |-> JNull, next |-> 0]
        Done(v, next) == [ok |-> TRUE, v |-> v, next |-> next]
        At(i) == IF i <= Len(b) THEN b[i] ELSE ""
        IsDigit(c) == \E d \in 1..10 : DigitChars[d] = c
        DigitVal(c) == (CHOOSE d \in 1..10 : DigitChars[d] = c) - 1
        MatchLit(i, lit) ==
            i + Len(lit) - 1 <= Len(b) /\ SubSeq(b, i, i + Len(lit) - 1) = lit
        RECURSIVE SkipWs(_)
        SkipWs(i) == IF At(i) \in {" ", "\n", "\t", "\r"} THEN SkipWs(i + 1) ELSE i
        RECURSIVE ScanString(_, _)
        ScanString(i, acc) ==
            LET c == At(i)
                e == At(i + 1)
            IN  CASE c = "" -> Fail
                  [] c = "\"" -> Done([JNull EXCEPT !.t = "str", !.s = acc], i + 1)
                  [] c \in {"\n", "\t", "\r"} -> Fail
                  [] c = "\\" ->
                       CASE e = "\"" -> ScanString(i + 2, Append(acc, "\""))
                         [] e = "\\" -> ScanString(i + 2, Append(acc, "\\"))
                         [] e = "/" -> ScanString(i + 2, Append(acc, "/"))
                         [] e = "n" -> ScanString(i + 2, Append(acc, "\n"))
                         [] e = "t" -> ScanString(i + 2, Append(acc, "\t"))
                         [] e = "r" -> ScanString(i + 2, Append(acc, "\r"))
                         [] OTHER -> Fail
                  [] OTHER -> ScanString(i + 1, Append(acc, c))
        RECURSIVE ScanDigits(_, _)
        ScanDigits(i, acc) ==
            LET c == At(i)
            IN  IF IsDigit(c)
                THEN IF acc > (IntMax - DigitVal(c)) \div 10
                     THEN Fail
                     ELSE ScanDigits(i + 1, acc * 10 + DigitVal(c))
                ELSE IF c \in {".", "e", "E"} THEN Fail
                ELSE Done([JNull EXCEPT !.t = "num", !.n = acc], i)
        ScanNumber(i) ==
            IF At(i) = "0"
            THEN IF IsDigit(At(i + 1)) \/ At(i + 1) \in {".", "e", "E"}
                 THEN Fail
                 ELSE Done([JNull EXCEPT !.t = "num"], i + 1)
            ELSE ScanDigits(i, 0)
        RECURSIVE ParseValue(_), ParseMembers(_, _)
        ParseValue(i0) ==
            LET i == SkipWs(i0)
                c == At(i)
            IN  CASE c = "\"" -> ScanString(i + 1, <<>>)
                  [] IsDigit(c) -> ScanNumber(i)
                  [] c = "t" ->
                       IF MatchLit(i, Chars.true)
                       THEN Done([JNull EXCEPT !.t = "bool", !.b = TRUE], i + 4)
                       ELSE Fail
                  [] c = "f" ->
                       IF MatchLit(i, Chars.false)
                       THEN Done([JNull EXCEPT !.t = "bool"], i + 5)
                       ELSE Fail
                  [] c = "n" -> IF MatchLit(i, Chars.null) THEN Done(JNull, i + 4) ELSE Fail
                  [] c = "{" ->
                       LET j == SkipWs(i + 1)
                       IN  IF At(j) = "}" THEN Done([JNull EXCEPT !.t = "obj"], j + 1)
                           ELSE ParseMembers(j, <<>>)
                  [] OTHER -> Fail
        ParseMembers(i, acc) ==
            IF At(i) # "\"" THEN Fail
            ELSE LET k == ScanString(i + 1, <<>>)
                 IN  IF ~k.ok THEN Fail
                     ELSE LET j == SkipWs(k.next)
                          IN  IF At(j) # ":" THEN Fail
                              ELSE LET v == ParseValue(j + 1)
                                   IN  IF ~v.ok THEN Fail
                                       ELSE LET m == SkipWs(v.next)
                                                more == Append(acc, [k |-> k.v.s, v |-> v.v])
                                            IN  CASE At(m) = "," ->
                                                       ParseMembers(SkipWs(m + 1), more)
                                                  [] At(m) = "}" ->
                                                       Done([JNull EXCEPT !.t = "obj",
                                                                          !.kids = more], m + 1)
                                                  [] OTHER -> Fail
        r == ParseValue(1)
    IN  IF r.ok /\ SkipWs(r.next) = Len(b) + 1
        THEN [ok |-> TRUE, v |-> r.v]
        ELSE [ok |-> FALSE, v |-> JNull]

\* Result<T, PluginError> of receive_message
DecodeOk(val) == [ok |-> TRUE, val |-> val, kind |-> "", message |-> <<>>]
DecodeErr == [ok |-> FALSE, val |-> None, kind |-> "Json", message |-> <<>>]
ClosedErr == [ok |-> FALSE, val |-> None, kind |-> "IpcConnection", message |-> ClosedMessage]

\* #[derive(Deserialize)]: the members of a struct variant are looked up by
\* name; a repeated or missing field is an error, unknown fields are skipped
HasOne(kids, key, t) ==
    /\ Cardinality({i \in 1..Len(kids) : kids[i].k = key}) = 1
    /\ \E i \in 1..Len(kids) : kids[i].k = key /\ kids[i].v.t = t
FieldOf(kids, key) == kids[CHOOSE i \in 1..Len(kids) : kids[i].k = key].v

\* the name a string spells, "" when it spells none of the given names
NameOf(s, names) == IF \E n \in names : Chars[n] = s THEN CHOOSE n \in names : Chars[n] = s ELSE ""

\* #[derive(Deserialize)] on DaemonCommand: a string names a unit variant;
\* an object with one member names the variant by its key
DeserializeCommand(j) ==
    LET Start(c) ==
            IF /\ c.t = "obj"
               /\ \A f \in {Chars.task_id, Chars.focus_len, Chars.break_len, Chars.cycles} :
                      HasOne(c.kids, f, "num")
               /\ \A f \in {Chars.no_gui, Chars.no_sound} : HasOne(c.kids, f, "bool")
            THEN DecodeOk([v |-> "Start",
                           task_id |-> FieldOf(c.kids, Chars.task_id).n,
                           focus_len |-> FieldOf(c.kids, Chars.focus_len).n,
                           break_len |-> FieldOf(c.kids, Chars.break_len).n,
                           cycles |-> FieldOf(c.kids, Chars.cycles).n,
                           no_gui |-> FieldOf(c.kids, Chars.no_gui).b,
                           no_sound |-> FieldOf(c.kids, Chars.no_sound).b])
            ELSE DecodeErr
    IN  CASE j.t = "str" ->
               IF NameOf(j.s, UnitCommands) # ""
               THEN DecodeOk([v |-> NameOf(j.s, UnitCommands)])
               ELSE DecodeErr
          [] j.t = "obj" /\ Len(j.kids) = 1 ->
               LET name == NameOf(j.kids[1].k, UnitCommands \cup {"Start"})
                   content == j.kids[1].v
               IN  CASE name = "Start" -> Start(content)
                     [] name \in UnitCommands /\ content.t = "null" -> DecodeOk([v |-> name])
                     [] OTHER -> DecodeErr
          [] OTHER -> DecodeErr

\* #[derive(Deserialize)] on DaemonResponse.  In Status, mode is a PomoMode
\* given by the name of its variant, and task_id is an Option<u32>: null or
\* an absent member is None, a number is Some
DeserializeResponse(j) ==
    LET Mode(kids) ==
            IF HasOne(kids, Chars.mode, "str")
            THEN NameOf(FieldOf(kids, Chars.mode).s, PomoModes)
            ELSE ""
        TaskId(kids) ==
            CASE \A i \in 1..Len(kids) : kids[i].k # Chars.task_id -> [ok |-> TRUE, val |-> None]
              [] HasOne(kids, Chars.task_id, "null") -> [ok |-> TRUE, val |-> None]
              [] HasOne(kids, Chars.task_id, "num") ->
                   [ok |-> TRUE, val |-> Some(FieldOf(kids, Chars.task_id).n)]
              [] OTHER -> [ok |-> FALSE, val |-> None]
        Status(c) ==
            IF /\ c.t = "obj"
               /\ HasOne(c.kids, Chars.remaining_secs, "num")
               /\ HasOne(c.kids, Chars.is_running, "bool")
               /\ Mode(c.kids) # ""
               /\ HasOne(c.kids, Chars.cycles_left, "num")
               /\ TaskId(c.kids).ok
            THEN DecodeOk([v |-> "Status",
                           remaining_secs |-> FieldOf(c.kids, Chars.remaining_secs).n,
                           is_running |-> FieldOf(c.kids, Chars.is_running).b,
                           mode |-> Mode(c.kids),
                           cycles_left |-> FieldOf(c.kids, Chars.cycles_left).n,
                           task_id |-> TaskId(c.kids).val])
            ELSE DecodeErr
    IN  CASE j.t = "str" ->
               IF j.s = Chars.Pong THEN DecodeOk([v |-> "Pong"]) ELSE DecodeErr
          [] j.t = "obj" /\ Len(j.kids) = 1 ->
               LET name == NameOf(j.kids[1].k, {"Ok", "Error", "Status", "Pong"})
                   content == j.kids[1].v
               IN  CASE name \in {"Ok", "Error"} /\ content.t = "str" ->
                          DecodeOk([v |-> name, s |-> content.s])
                     [] name = "Status" -> Status(content)
                     [] name = "Pong" /\ content.t = "null" -> DecodeOk([v |-> "Pong"])
                     [] OTHER -> DecodeErr
          [] OTHER -> DecodeErr

\* serde_json::from_slice::<T>(bytes)
FromSlice(ty, bytes) ==
    LET r == ParseJson(bytes)
    IN  IF ~r.ok THEN DecodeErr
        ELSE IF ty = "DaemonCommand" THEN DeserializeCommand(r.v)
        ELSE DeserializeResponse(r.v)

(* ---- one message over the stream ---- *)
\* nothing has been sent
WireIdle ==
    [pos |-> "off", ty |-> "DaemonCommand", msg |-> [v |-> "Ping"], size |-> 0,
     bytes |-> <<>>, arrived |-> 0, out |-> ClosedErr]

\* a sender about to send msg of type ty, a receiver that reads with buffer_size
WireEntry(ty, msg, size) == [WireIdle EXCEPT !.pos = "send", !.ty = ty, !.msg = msg, !.size = size]

\* send_message: the message is serialized and written to the stream
WireSend ==
    /\ wire.pos = "send"
    /\ wire' = [wire EXCEPT !.pos = "sent", !.bytes = ToVec(wire.ty, wire.msg)]
    /\ UNCHANGED <<regVars, daemonVars, callVars, pathVars, tickVars, pomoVars, taskVars, storeVars>>

\* the sender closes the stream without sending
WireClose ==
    /\ wire.pos = "send"
    /\ wire' = [wire EXCEPT !.pos = "arrived"]
    /\ UNCHANGED <<regVars, daemonVars, callVars, pathVars, tickVars, pomoVars, taskVars, storeVars>>

\* the receiver's read becomes ready when k bytes of the message have
\* arrived: all of them, or a first part when the stream delivers it split
WireArrive(k) ==
    /\ wire.pos = "sent"
    /\ k \in 1..Len(wire.bytes)
    /\ wire' = [wire EXCEPT !.pos = "arrived", !.arrived = k]
    /\ UNCHANGED <<regVars, daemonVars, callVars, pathVars, tickVars, pomoVars, taskVars, storeVars>>

\* a receive that reads until the whole message is there
WireReceiveAll ==
    /\ wire.pos = "arrived"
    /\ wire' = [wire EXCEPT !.pos = "done",
                            !.out = IF Len(wire.bytes) = 0 THEN ClosedErr
                                    ELSE FromSlice(wire.ty, wire.bytes)]
    /\ UNCHANGED <<regVars, daemonVars, callVars, pathVars, tickVars, pomoVars, taskVars, storeVars>>

\* receive_message: one read into a buffer of buffer_size bytes; zero bytes
\* read is the connection-closed error, otherwise the bytes read are decoded
WireReceive ==
    /\ wire.pos = "arrived"
    /\ LET n == Min(wire.arrived, wire.size)
       IN  wire' = [wire EXCEPT !.pos = "done",
                                !.out = IF n = 0 THEN ClosedErr
                                        ELSE FromSlice(wire.ty, SubSeq(wire.bytes, 1, n))]
    /\ UNCHANGED <<regVars, daemonVars, callVars, pathVars, tickVars, pomoVars, taskVars, storeVars>>

CodecNext ==
    \/ WireSend
    \/ WireClose
    \/ \E k \in 1..Len(wire.bytes) : WireArrive(k)
    \/ WireReceive

(***************************************************************************)
(* The pomodoro daemon (plugins/pomodoro/src/daemon.rs)                    *)
(*                                                                         *)
(* Time is counted in minutes, the unit of focus_len and break_len.  A u32 *)
(* is held as its residue in two's complement, so -1 stands for            *)
(* 4294967295, the value a wrapping decrement of 0 produces.               *)
(***************************************************************************)
MaxNow == 4             \* the clock stops advancing here
MaxCycles == 2          \* largest cycles argument of a Start command
MaxCmds == 3            \* connections the daemon accepts in one run

\* the connection tasks that can be alive at once
PomoConns == {1, 2}

MIN_CYCLES == 1
long_break_minutes == 15
pomodoros_before_long_break == 4

FocusLens == {1}
BreakLens == {1}

\* the Start commands lib.rs sends: validate_cycles has passed
StartCommands ==
    [cmd : {"Start"}, focus_len : FocusLens, break_len : BreakLens,
     cycles : MIN_CYCLES..MaxCycles, no_gui : BOOLEAN, no_sound : {TRUE}]

PomoRequests ==
    StartCommands \cup [cmd : {"Status", "Stop", "Pause", "Resume", "Ping"}]

\* the initial TimerState of run_daemon; break_window_process is "none", or
\* the state of the child process behind the handle
TimerNew ==
    [mode |-> "Idle", end_time |-> None, cycles_remaining |-> 0, total_cycles |-> 0,
     completed_pomodoros |-> 0, timer_config |-> None, task_id |-> None,
     paused_duration |-> None, break_window_process |-> "none"]

\* end.saturating_duration_since(now)
SaturatingSince(end, now) == IF end > now THEN end - now ELSE 0

reset_state(s) ==
    [s EXCEPT !.mode = "Idle", !.end_time = None, !.paused_duration = None,
              !.cycles_remaining = 0, !.completed_pomodoros = 0]

handle_break_finished(s, now) ==
    [s EXCEPT !.mode = "Focus",
              !.end_time = IF s.timer_config.some
                           THEN Some(now + s.timer_config.val.focus_duration)
                           ELSE @]

\* the Focus arm looks at the cycles left before the decrement
handle_timer_transition_off_by_one(s, now, spawned) ==
    IF ~s.timer_config.some THEN s
    ELSE LET config == s.timer_config.val IN
         CASE s.mode = "Focus" ->
                 LET t == [s EXCEPT !.cycles_remaining = @ - 1,
                                    !.completed_pomodoros = @ + 1]
                     is_long_break ==
                         t.completed_pomodoros % pomodoros_before_long_break = 0
                     break_duration == IF is_long_break THEN config.long_break_duration
                                       ELSE config.break_duration
                 IN  IF s.cycles_remaining # 0
                     THEN IF config.show_gui /\ spawned
                          THEN [t EXCEPT !.mode = "Break", !.end_time = None,
                                         !.break_window_process = "running"]
                          ELSE [t EXCEPT !.mode = "Break",
                                         !.end_time = Some(now + break_duration)]
                     ELSE reset_state(t)
           [] s.mode = "Break" ->
                 [s EXCEPT !.mode = "Focus",
                           !.end_time = Some(now + config.focus_duration)]
           [] s.mode = "Idle" -> reset_state(s)
\* the countdown has run out; spawned is whether spawn_break_window_process
\* returned a child.  The Focus arm decrements, then compares with 0.
handle_timer_transition(s, now, spawned) ==
    IF ~s.timer_config.some THEN s
    ELSE LET config == s.timer_config.val IN
         CASE s.mode = "Focus" ->
                 LET t == [s EXCEPT !.cycles_remaining = @ - 1,
                                    !.completed_pomodoros = @ + 1]
                     is_long_break ==
                         t.completed_pomodoros % pomodoros_before_long_break = 0
                     break_duration == IF is_long_break THEN config.long_break_duration
                                       ELSE config.break_duration
                 IN  IF t.cycles_remaining # 0
                     THEN IF config.show_gui /\ spawned
                          THEN [t EXCEPT !.mode = "Break", !.end_time = None,
                                         !.break_window_process = "running"]
                          ELSE [t EXCEPT !.mode = "Break",
                                         !.end_time = Some(now + break_duration)]
                     ELSE reset_state(t)
           [] s.mode = "Break" ->
                 [s EXCEPT !.mode = "Focus",
                           !.end_time = Some(now + config.focus_duration)]
           [] s.mode = "Idle" -> reset_state(s)

\* the match arms of handle_connection, as <<new state, response>>
HandleCommand(s, req, now) ==
    CASE req.cmd = "Start" ->
            <<[s EXCEPT !.timer_config =
                            Some([focus_duration |-> req.focus_len,
                                  break_duration |-> req.break_len,
                                  long_break_duration |-> long_break_minutes,
                                  show_gui |-> ~req.no_gui,
                                  play_sound |-> ~req.no_sound]),
                        !.cycles_remaining = req.cycles,
                        !.total_cycles = req.cycles,
                        !.completed_pomodoros = 0,
                        !.mode = "Focus",
                        !.end_time = Some(now + req.focus_len),
                        !.paused_duration = None],
              [v |-> "Ok", text |-> "Started"]>>
      [] req.cmd = "Stop" ->
            <<[s EXCEPT !.end_time = None, !.task_id = None, !.mode = "Idle",
                        !.completed_pomodoros = 0],
              [v |-> "Ok", text |-> "Timer stopped"]>>
      [] req.cmd = "Status" ->
            <<s,
              IF s.end_time.some
              THEN [v |-> "Status", remaining_secs |-> 60 * SaturatingSince(s.end_time.val, now),
                    is_running |-> TRUE, mode |-> s.mode,
                    cycles_left |-> s.cycles_remaining]
              ELSE IF s.break_window_process # "none"
              THEN [v |-> "Status", remaining_secs |-> 0, is_running |-> TRUE,
                    mode |-> "Break", cycles_left |-> s.cycles_remaining]
              ELSE IF s.paused_duration.some
              THEN [v |-> "Status", remaining_secs |-> 60 * s.paused_duration.val,
                    is_running |-> FALSE, mode |-> s.mode,
                    cycles_left |-> s.cycles_remaining]
              ELSE [v |-> "Status", remaining_secs |-> 0, is_running |-> FALSE,
                    mode |-> "Idle", cycles_left |-> 0]>>
      [] req.cmd = "Pause" ->
            IF s.end_time.some
            THEN <<[s EXCEPT !.paused_duration = Some(SaturatingSince(s.end_time.val, now)),
                             !.end_time = None],
                   [v |-> "Ok", text |-> "Paused"]>>
            ELSE <<s, [v |-> "Error", text |-> "Timer is not running"]>>
      [] req.cmd = "Resume" ->
            IF s.paused_duration.some
            THEN <<[s EXCEPT !.end_time = Some(now + s.paused_duration.val),
                             !.paused_duration = None],
                   [v |-> "Ok", text |-> "Timer resumed"]>>
            ELSE <<s, [v |-> "Error", text |-> "No paused timer found"]>>
      [] req.cmd = "Ping" -> <<s, [v |-> "Pong"]>>

NoSession == [on |-> FALSE]

PomoOff ==
    [now |-> 0, lock |-> Free, exited |-> FALSE, panicked |-> FALSE,
     overflow_checks |-> FALSE, cmds |-> 0,
     pos |-> [c \in PomoConns |-> "off"], last |-> None,
     stopped |-> FALSE, sess |-> NoSession,
     kill_began |-> FALSE, kill_sends |-> 0, kill_sent |-> FALSE, after_kill |-> FALSE]

\* run_daemon has bound its listener; overflow_checks is the build profile
PomoEntry(overflow_checks) ==
    [PomoOff EXCEPT !.overflow_checks = overflow_checks,
                    !.pos = [c \in PomoConns |-> "idle"]]

PomoDead == pomo.exited \/ pomo.panicked

\* the periods of the session begun by the last Start, while no command
\* has followed it
Session(req, s) ==
    [on |-> TRUE, cycles |-> req.cycles, no_gui |-> req.no_gui,
     stale |-> s.break_window_process # "none", periods |-> <<"Focus">>]
SessionPeriod(sess, ran, s) ==
    IF sess.on /\ ran THEN [sess EXCEPT !.periods = Append(@, s.mode)] ELSE sess

\* the accept branch of select!: tokio::spawn(handle_connection)
PomoAccept(c) ==
    /\ ~PomoDead
    /\ pomo.pos[c] = "idle"
    /\ pomo.cmds < MaxCmds
    /\ pomo' = [pomo EXCEPT !.pos[c] = "buf", !.cmds = @ + 1, !.last = None]
    /\ UNCHANGED <<timer, regVars, daemonVars, callVars, pathVars, tickVars, codecVars, taskVars, storeVars>>

\* buffer_size is read under the state lock
PomoBufferSize(c) ==
    /\ ~PomoDead
    /\ pomo.pos[c] = "buf"
    /\ pomo.lock = Free
    /\ pomo' = [pomo EXCEPT !.pos[c] = "recv", !.last = None,
                            !.after_kill = @ \/ pomo.kill_began]
    /\ UNCHANGED <<timer, regVars, daemonVars, callVars, pathVars, tickVars, codecVars, taskVars, storeVars>>

\* receive_message fails: the task ends without a response
PomoClosed(c) ==
    /\ ~PomoDead
    /\ pomo.pos[c] = "recv"
    /\ pomo' = [pomo EXCEPT !.pos[c] = "idle", !.last = None]
    /\ UNCHANGED <<timer, regVars, daemonVars, callVars, pathVars, tickVars, codecVars, taskVars, storeVars>>

\* a command other than Kill: the block that holds the lock runs to its end
\* and the response is sent; last is the command and its response, kept
\* until the next step of the daemon
PomoHandle(c, req) ==
    /\ ~PomoDead
    /\ pomo.pos[c] = "recv"
    /\ pomo.lock = Free
    /\ LET out == HandleCommand(timer, req, pomo.now)
       IN  /\ timer' = out[1]
           /\ pomo' = [pomo EXCEPT
                  !.pos[c] = "idle",
                  !.last = Some([cmd |-> req.cmd, response |-> out[2]]),
                  !.stopped = IF req.cmd = "Stop" THEN TRUE
                              ELSE IF req.cmd = "Start" THEN FALSE ELSE @,
                  !.sess = IF req.cmd = "Start" THEN Session(req, timer) ELSE NoSession,
                  !.after_kill = @ \/ pomo.kill_began]
    /\ UNCHANGED <<regVars, daemonVars, callVars, pathVars, tickVars, codecVars, taskVars, storeVars>>

\* the Kill arm is left with the lock released
PomoKillUnlocked(c) ==
    /\ ~PomoDead
    /\ pomo.pos[c] = "recv"
    /\ pomo.lock = Free
    /\ pomo' = [pomo EXCEPT !.pos[c] = "kill_send", !.last = None,
                            !.kill_began = TRUE, !.sess = NoSession]
    /\ UNCHANGED <<timer, regVars, daemonVars, callVars, pathVars, tickVars, codecVars, taskVars, storeVars>>
\* the Kill arm is entered: the guard `locked` lives until the process ends
PomoKill(c) ==
    /\ ~PomoDead
    /\ pomo.pos[c] = "recv"
    /\ pomo.lock = Free
    /\ pomo' = [pomo EXCEPT !.pos[c] = "kill_send", !.last = None,
                            !.lock = c,
                            !.after_kill = @ \/ pomo.kill_began,
                            !.kill_began = TRUE, !.sess = NoSession]
    /\ UNCHANGED <<timer, regVars, daemonVars, callVars, pathVars, tickVars, codecVars, taskVars, storeVars>>

\* let _ = send_message(stream, &response).await
PomoKillSend(c, sent) ==
    /\ ~PomoDead
    /\ pomo.pos[c] = "kill_send"
    /\ pomo' = [pomo EXCEPT !.pos[c] = "kill_exit", !.kill_sends = @ + 1,
                            !.kill_sent = sent,
                            !.last = Some([cmd |-> "Kill",
                                           response |-> [v |-> "Ok",
                                                         text |-> "Daemon shutting down."]])]
    /\ UNCHANGED <<timer, regVars, daemonVars, callVars, pathVars, tickVars, codecVars, taskVars, storeVars>>

\* std::process::exit(0)
PomoKillExit(c) ==
    /\ ~PomoDead
    /\ pomo.pos[c] = "kill_exit"
    /\ pomo' = [pomo EXCEPT !.exited = TRUE, !.last = None]
    /\ UNCHANGED <<timer, regVars, daemonVars, callVars, pathVars, tickVars, codecVars, taskVars, storeVars>>

\* the tick branch of select!: the break window is polled, then the
\* countdown is compared with the clock.  The Err arm of try_wait does what
\* the exit of the child does.
PomoTick ==
    /\ ~PomoDead
    /\ pomo.lock = Free
    /\ LET now == pomo.now
           finished == timer.break_window_process = "exited"
           s1 == IF finished
                 THEN handle_break_finished(
                          [timer EXCEPT !.break_window_process = "none"], now)
                 ELSE timer
           expired == s1.end_time.some /\ now >= s1.end_time.val
           underflow == /\ expired /\ s1.timer_config.some
                        /\ s1.mode = "Focus" /\ s1.cycles_remaining = 0
           sess1 == SessionPeriod(pomo.sess, finished, s1)
       IN  IF underflow /\ pomo.overflow_checks
           THEN /\ timer' = s1
                /\ pomo' = [pomo EXCEPT !.panicked = TRUE, !.sess = sess1, !.last = None,
                                        !.after_kill = @ \/ pomo.kill_began]
           ELSE \E spawned \in BOOLEAN :
                   /\ timer' = IF expired THEN handle_timer_transition(s1, now, spawned)
                               ELSE s1
                   /\ pomo' = [pomo EXCEPT
                          !.last = None,
                          !.sess = SessionPeriod(sess1, expired /\ s1.timer_config.some, timer'),
                          !.after_kill = @ \/ pomo.kill_began]
    /\ UNCHANGED <<regVars, daemonVars, callVars, pathVars, tickVars, codecVars, taskVars, storeVars>>

\* the break window process ends: closed, skipped or run to its end, at
\* a time of its own (break_len goes up to 120 minutes, focus_len down to 1)
BreakWindowExit ==
    /\ ~PomoDead
    /\ timer.break_window_process = "running"
    /\ timer' = [timer EXCEPT !.break_window_process = "exited"]
    /\ pomo' = [pomo EXCEPT !.last = None]
    /\ UNCHANGED <<regVars, daemonVars, callVars, pathVars, tickVars, codecVars, taskVars, storeVars>>

\* a minute passes; the tick interval is a second, so a tick that has
\* something to do runs before the minute is over
TickDue ==
    /\ pomo.lock = Free
    /\ \/ timer.break_window_process = "exited"
       \/ timer.end_time.some /\ pomo.now >= timer.end_time.val
PomoClock ==
    /\ ~PomoDead
    /\ pomo.now < MaxNow
    /\ ~TickDue
    /\ pomo' = [pomo EXCEPT !.now = @ + 1, !.last = None]
    /\ UNCHANGED <<timer, regVars, daemonVars, callVars, pathVars, tickVars, codecVars, taskVars, storeVars>>

PomoNext ==
    \/ \E c \in PomoConns :
          \/ PomoAccept(c)
          \/ PomoBufferSize(c)
          \/ PomoClosed(c)
          \/ \E req \in PomoRequests : PomoHandle(c, req)
          \/ PomoKill(c)
          \/ \E sent \in BOOLEAN : PomoKillSend(c, sent)
          \/ PomoKillExit(c)
    \/ PomoTick
    \/ BreakWindowExit
    \/ PomoClock

(***************************************************************************)
(* TaskCollection (taiga-core/src/task.rs)                                 *)
(*                                                                         *)
(* tasks is the HashMap from key to Task; of a Task the id and the         *)
(* completion mark are kept.                                               *)
(***************************************************************************)
MaxTaskId == 3          \* largest id a task gets or is inserted with

TaskIds == 0..MaxTaskId
Tasks == [id : TaskIds, is_complete : BOOLEAN]

\* TaskCollection::new()
NewCollection == [tasks |-> EmptyMap, next_id |-> 1]
\* #[derive(Default)]: an empty map and 0
DefaultCollection == [tasks |-> EmptyMap, next_id |-> 0]

\* the first id in 1..=next_id that is not a key, else next_id
find_next_id(c) ==
    LET unused == {id \in 1..c.next_id : id \notin DOMAIN c.tasks}
    IN  IF unused = {} THEN c.next_id
        ELSE CHOOSE id \in unused : \A other \in unused : id <= other

update_next_id(c) ==
    IF DOMAIN c.tasks # {}
    THEN [c EXCEPT !.next_id =
              (CHOOSE max_id \in DOMAIN c.tasks : \A k \in DOMAIN c.tasks : k <= max_id) + 1]
    ELSE [c EXCEPT !.next_id = 1]

\* <<collection, returned id>>
add_with_category_tags(c) ==
    LET id == find_next_id(c)
        task == [id |-> id, is_complete |-> FALSE]
    IN  <<update_next_id([c EXCEPT !.tasks = Insert(c.tasks, id, task)]), id>>

insert(c, task) ==
    LET raised == IF task.id >= c.next_id THEN [c EXCEPT !.next_id = task.id + 1] ELSE c
    IN  [raised EXCEPT !.tasks = Insert(c.tasks, task.id, task)]

remove(c, id) ==
    [c EXCEPT !.tasks = [k \in DOMAIN c.tasks \ {id} |-> c.tasks[k]]]

\* the tasks sorted by their id get the keys and ids 1, 2, ...
reindex(c) ==
    LET old == {c.tasks[k] : k \in DOMAIN c.tasks}
        Rank(task) == Cardinality({t \in old : t.id < task.id}) + 1
        renumbered == {[task EXCEPT !.id = Rank(task)] : task \in old}
    IN  update_next_id(
            [c EXCEPT !.tasks = [k \in {t.id : t \in renumbered} |->
                                    CHOOSE t \in renumbered : t.id = k]])

remove_checked(c) ==
    LET to_remove == {k \in DOMAIN c.tasks : c.tasks[k].is_complete}
    IN  <<[c EXCEPT !.tasks = [k \in DOMAIN c.tasks \ to_remove |-> c.tasks[k]]],
          Cardinality(to_remove)>>

CollOff == [tasks |-> EmptyMap, next_id |-> 0, ret |-> [op |-> "off"]]
CollEntry(c, op) == [tasks |-> c.tasks, next_id |-> c.next_id, ret |-> [op |-> op]]
CollState == [tasks |-> coll.tasks, next_id |-> coll.next_id]

CollAdd ==
    /\ coll.ret.op # "off"
    /\ LET out == add_with_category_tags(CollState)
       IN  /\ out[2] <= MaxTaskId
           /\ coll' = [tasks |-> out[1].tasks, next_id |-> out[1].next_id,
                       ret |-> [op |-> "add", id |-> out[2]]]
    /\ UNCHANGED <<regVars, daemonVars, callVars, pathVars, tickVars, codecVars, pomoVars, storeVars>>

CollInsert(task) ==
    /\ coll.ret.op # "off"
    /\ LET out == insert(CollState, task)
       IN  coll' = [tasks |-> out.tasks, next_id |-> out.next_id,
                    ret |-> [op |-> "insert", id |-> task.id]]
    /\ UNCHANGED <<regVars, daemonVars, callVars, pathVars, tickVars, codecVars, pomoVars, storeVars>>

CollRemove(id) ==
    /\ coll.ret.op # "off"
    /\ LET out == remove(CollState, id)
       IN  coll' = [tasks |-> out.tasks, next_id |-> out.next_id,
                    ret |-> [op |-> "remove", id |-> id,
                             task |-> IF id \in DOMAIN coll.tasks
                                      THEN Some(coll.tasks[id]) ELSE None]]
    /\ UNCHANGED <<regVars, daemonVars, callVars, pathVars, tickVars, codecVars, pomoVars, storeVars>>

CollRemoveChecked ==
    /\ coll.ret.op # "off"
    /\ LET out == remove_checked(CollState)
       IN  coll' = [tasks |-> out[1].tasks, next_id |-> out[1].next_id,
                    ret |-> [op |-> "remove_checked", count |-> out[2]]]
    /\ UNCHANGED <<regVars, daemonVars, callVars, pathVars, tickVars, codecVars, pomoVars, storeVars>>

CollReindex ==
    /\ coll.ret.op # "off"
    /\ Cardinality(DOMAIN coll.tasks) <= MaxTaskId
    /\ LET out == reindex(CollState)
       IN  coll' = [tasks |-> out.tasks, next_id |-> out.next_id,
                    ret |-> [op |-> "reindex"]]
    /\ UNCHANGED <<regVars, daemonVars, callVars, pathVars, tickVars, codecVars, pomoVars, storeVars>>

CollNext ==
    \/ CollAdd
    \/ \E task \in Tasks : CollInsert(task)
    \/ \E id \in TaskIds : CollRemove(id)
    \/ CollRemoveChecked
    \/ CollReindex

(***************************************************************************)
(* MarkdownStorage (taiga-cli/src/storage.rs)                              *)
(*                                                                         *)
(* A file is None or Some sequence of lines, a line a sequence of          *)
(* characters.  The tasks saved here carry no date.                        *)
(***************************************************************************)
MaxStoreId == 2         \* largest id of a task that is saved

T_A == <<"a">>                        \* the title "a"
T_A_HASH_B == <<"a", " ", "#", "b">>              \* the title "a #b"
TAG_B == <<"b">>                      \* the tag "b"
CAT_W == <<"W">>                      \* the category "W"
UNCATEGORIZED == <<"U", "n", "c", "a", "t", "e", "g", "o", "r", "i", "z", "e", "d">>

\* the named categories in the order save writes them
CategoryNames == <<CAT_W>>

WordChars ==
    {"a", "b", "c", "d", "e", "g", "i", "n", "o", "r", "t", "u", "z", "x",
     "U", "W", "I", "D", "_", "0", "1", "2", "3", "4", "5", "6", "7", "8", "9"}
Whitespace == {" "}

\* str::to_lowercase on the capital letters that occur
ToLowercase(s) ==
    [i \in 1..Len(s) |-> CASE s[i] = "U" -> "u" [] s[i] = "W" -> "w"
                           [] s[i] = "I" -> "i" [] s[i] = "D" -> "d"
                           [] OTHER -> s[i]]

\* str::trim
Trim(s) ==
    LET kept == {i \in 1..Len(s) : s[i] \notin Whitespace}
    IN  IF kept = {} THEN <<>>
        ELSE LET first == CHOOSE i \in kept : \A j \in kept : i <= j
                 last == CHOOSE i \in kept : \A j \in kept : j <= i
             IN  SubSeq(s, first, last)

\* the tasks that are saved: a completed one with a tag and a category, and
\* an open one whose title holds a '#'
StoredTasks ==
    UNION {{[id |-> id, title |-> T_A, is_complete |-> TRUE, scheduled |-> None,
             category |-> Some(CAT_W), tags |-> <<TAG_B>>],
            [id |-> id, title |-> T_A_HASH_B, is_complete |-> FALSE, scheduled |-> None,
             category |-> None, tags |-> <<>>]} : id \in 1..MaxStoreId}

\* the collections handed to save: at most one task under each id
StoredCollections ==
    {c \in SUBSET StoredTasks : \A s, t \in c : s.id = t.id => s = t}

\* the HashMap of a collection that holds these tasks
TasksOf(c) == [k \in {t.id : t \in c} |-> CHOOSE t \in c : t.id = k]

format_task_line(task) ==
    LET check_mark == IF task.is_complete THEN "x" ELSE " "
        RECURSIVE JoinTags(_)
        JoinTags(tags) ==
            IF tags = <<>> THEN <<>>
            ELSE <<" ", "#">> \o Head(tags) \o JoinTags(Tail(tags))
        tags_str == JoinTags(task.tags)
        head == <<"[", "I", "D", ":">> \o ToDigits(task.id) \o <<"]", " ", "-", " ", "[">> \o <<check_mark>> \o <<"]", " ">>
    IN  IF task.scheduled.some
        THEN head \o task.title \o tags_str \o <<" ", "(", "S", "c", "h", "e", "d", "u", "l", "e", "d", ":", " ">>
                  \o task.scheduled.val \o <<")">>
        ELSE head \o task.title \o tags_str

\* TASK_REGEX, TAG_REGEX and the fields built from their groups; None for a
\* line that does not match
parse_task_line(line, category) ==
    LET open == <<"[", "I", "D", ":">>
        mid == <<"]", " ", "-", " ", "[">>
        sched == <<" ", "(", "S", "c", "h", "e", "d", "u", "l", "e", "d", ":", " ">>
        after_open == SubSeq(line, Len(open) + 1, Len(line))
        IsDigit(ch) == \E d \in 1..10 : DigitChars[d] = ch
        RECURSIVE DigitRun(_)
        DigitRun(s) == IF s # <<>> /\ IsDigit(Head(s)) THEN 1 + DigitRun(Tail(s)) ELSE 0
        n == DigitRun(after_open)
        digits == SubSeq(after_open, 1, n)
        RECURSIVE FromDigits(_)
        FromDigits(ds) ==
            IF ds = <<>> THEN 0
            ELSE 10 * FromDigits(SubSeq(ds, 1, Len(ds) - 1))
                 + (CHOOSE d \in 0..9 : DigitChars[d + 1] = ds[Len(ds)])
        after_id == SubSeq(after_open, n + 1, Len(after_open))
        after_mid == SubSeq(after_id, Len(mid) + 1, Len(after_id))
        matches == /\ StartsWith(line, open)
                   /\ n >= 1
                   /\ StartsWith(after_id, mid)
                   /\ Len(after_mid) >= 3
                   /\ after_mid[2] = "]" /\ after_mid[3] = " "
        rest == SubSeq(after_mid, 4, Len(after_mid))
        \* the lazy title group ends at the first place from which the
        \* optional date group reaches the end of the line
        cuts == {k \in 0..Len(rest) :
                    /\ StartsWith(SubSeq(rest, k + 1, Len(rest)), sched)
                    /\ rest[Len(rest)] = ")"
                    /\ Len(rest) - k > Len(sched)}
        cut == IF cuts = {} THEN Len(rest)
               ELSE CHOOSE k \in cuts : \A j \in cuts : k <= j
        raw_title == SubSeq(rest, 1, cut)
        date_str == SubSeq(rest, cut + Len(sched) + 1, Len(rest) - 1)
        RECURSIVE WordRun(_)
        WordRun(s) == IF s # <<>> /\ Head(s) \in WordChars THEN 1 + WordRun(Tail(s)) ELSE 0
        \* <<tags, the title with the tags taken out>>
        RECURSIVE ScanTags(_)
        ScanTags(s) ==
            IF s = <<>> THEN <<(<<>>), (<<>>)>>
            ELSE LET w == WordRun(Tail(s))
                 IN  IF Head(s) = "#" /\ w >= 1
                     THEN LET more == ScanTags(SubSeq(s, w + 2, Len(s)))
                          IN  <<(<<SubSeq(s, 2, w + 1)>>) \o more[1], more[2]>>
                     ELSE LET more == ScanTags(Tail(s))
                          IN  <<more[1], (<<Head(s)>>) \o more[2]>>
        scanned == ScanTags(raw_title)
    IN  IF ~matches THEN None
        ELSE Some([id |-> FromDigits(digits),
                   title |-> Trim(scanned[2]),
                   is_complete |-> after_mid[1] = "x",
                   scheduled |-> IF cuts = {} THEN None ELSE Some(date_str),
                   category |-> category,
                   tags |-> scanned[1]])

\* the lines save writes for the tasks of a collection
SaveLines(tasks) ==
    LET all == {tasks[k] : k \in DOMAIN tasks}
        \* list_all: sorted by id
        RECURSIVE ById(_)
        ById(set) ==
            IF set = {} THEN <<>>
            ELSE LET first == CHOOSE t \in set : \A u \in set : t.id <= u.id
                 IN  <<first>> \o ById(set \ {first})
        Lines(list) == [i \in 1..Len(list) |-> format_task_line(list[i])]
        \* named categories by lower-case name, then the uncategorized tasks
        named == SelectSeq(CategoryNames,
                           LAMBDA name : \E t \in all : t.category = Some(name))
        categories == [i \in 1..Len(named) |-> Some(named[i])]
                      \o (IF \E t \in all : t.category = None THEN <<None>> ELSE <<>>)
        Block(category) ==
            <<<<"#", "#", " ">> \o UnwrapOr(category, UNCATEGORIZED)>>
            \o Lines(ById({t \in all : t.category = category}))
        RECURSIVE Blocks(_, _)
        Blocks(cats, first_category) ==
            IF cats = <<>> THEN <<>>
            ELSE (IF first_category THEN <<>> ELSE <<(<<>>)>>)
                 \o Block(Head(cats)) \o Blocks(Tail(cats), FALSE)
    IN  Blocks(categories, TRUE)

\* load on a file that exists: the collection built line by line
LoadLines(lines) ==
    LET RECURSIVE Read(_, _, _)
        Read(rest, collection, current_category) ==
            IF rest = <<>> THEN collection
            ELSE LET line == Head(rest)
                     trimmed == Trim(line)
                     after_marks == SubSeq(trimmed, 3, Len(trimmed))
                     is_header == /\ StartsWith(trimmed, <<"#", "#">>)
                                  /\ after_marks # <<>>
                                  /\ after_marks[1] \in Whitespace
                     cat_name == Trim(after_marks)
                     parsed == parse_task_line(line, current_category)
                 IN  IF trimmed = <<>> THEN Read(Tail(rest), collection, current_category)
                     ELSE IF is_header
                     THEN Read(Tail(rest), collection,
                               IF ToLowercase(cat_name) = ToLowercase(UNCATEGORIZED)
                               THEN None ELSE Some(cat_name))
                     ELSE IF parsed.some
                     THEN Read(Tail(rest), insert(collection, parsed.val), current_category)
                     ELSE Read(Tail(rest), collection, current_category)
    IN  Read(lines, NewCollection, None)

\* load: a missing file is an empty collection
load(file) == IF file.some THEN LoadLines(file.val) ELSE NewCollection

\* recover: the backup file, loaded
recover(backup_file) ==
    IF ~backup_file.some THEN [ok |-> FALSE, err |-> "Backup file not found"]
    ELSE [ok |-> TRUE, tasks |-> load(backup_file).tasks]

\* prev and curr are the tasks of the last two saves, while the files are
\* as those saves left them
DiskOff ==
    [tasks_file |-> None, backup_file |-> None, ret |-> [op |-> "off"],
     prev |-> None, curr |-> None]
DiskEntry == [DiskOff EXCEPT !.ret = [op |-> "new"]]

\* save writes the tasks file first and copies it to the backup afterwards
SaveThenBackup(d, tasks, outcome) ==
    IF outcome = "backup_err" /\ d.tasks_file.some
    THEN [d EXCEPT !.ret = [op |-> "save", ok |-> FALSE]]
    ELSE IF outcome = "open_err"
    THEN [d EXCEPT !.ret = [op |-> "save", ok |-> FALSE], !.prev = None]
    ELSE [d EXCEPT !.tasks_file = Some(SaveLines(tasks)),
                   !.backup_file = Some(SaveLines(tasks)),
                   !.ret = [op |-> "save", ok |-> TRUE],
                   !.prev = d.curr, !.curr = Some(tasks)]
\* save: backup()?, then the tasks file is opened with truncate and written
Save(d, tasks, outcome) ==
    IF outcome = "backup_err" /\ d.tasks_file.some
    THEN [d EXCEPT !.ret = [op |-> "save", ok |-> FALSE]]
    ELSE LET backed == IF d.tasks_file.some THEN d.tasks_file ELSE d.backup_file
         IN  IF outcome = "open_err"
             THEN [d EXCEPT !.backup_file = backed,
                            !.ret = [op |-> "save", ok |-> FALSE], !.prev = None]
             ELSE [d EXCEPT !.backup_file = backed,
                            !.tasks_file = Some(SaveLines(tasks)),
                            !.ret = [op |-> "save", ok |-> TRUE],
                            !.prev = d.curr, !.curr = Some(tasks)]

SaveOutcomes == {"ok", "backup_err", "open_err"}

StoreSave(c, outcome) ==
    /\ disk.ret.op # "off"
    /\ disk' = Save(disk, TasksOf(c), outcome)
    /\ UNCHANGED <<regVars, daemonVars, callVars, pathVars, tickVars, codecVars, pomoVars, taskVars>>

StoreLoad ==
    /\ disk.ret.op # "off"
    /\ disk' = [disk EXCEPT !.ret = [op |-> "load", ok |-> TRUE,
                                     tasks |-> load(disk.tasks_file).tasks]]
    /\ UNCHANGED <<regVars, daemonVars, callVars, pathVars, tickVars, codecVars, pomoVars, taskVars>>

StoreRecover ==
    /\ disk.ret.op # "off"
    /\ disk' = [disk EXCEPT !.ret = [op |-> "recover"] @@ recover(disk.backup_file)]
    /\ UNCHANGED <<regVars, daemonVars, callVars, pathVars, tickVars, codecVars, pomoVars, taskVars>>

\* Commands::Recover with the confirmation given: recover, then save
StoreRecoverCommand(outcome) ==
    /\ disk.ret.op # "off"
    /\ disk' = IF ~disk.backup_file.some
               THEN [disk EXCEPT !.ret = [op |-> "recover_command", ok |-> FALSE]]
               ELSE [Save(disk, recover(disk.backup_file).tasks, outcome)
                        EXCEPT !.ret.op = "recover_command"]
    /\ UNCHANGED <<regVars, daemonVars, callVars, pathVars, tickVars, codecVars, pomoVars, taskVars>>

\* the tasks file is deleted from outside
StoreRemoveFile ==
    /\ disk.ret.op # "off"
    /\ disk.tasks_file.some
    /\ disk' = [disk EXCEPT !.tasks_file = None, !.prev = None, !.curr = None,
                            !.ret = [op |-> "remove_file"]]
    /\ UNCHANGED <<regVars, daemonVars, callVars, pathVars, tickVars, codecVars, pomoVars, taskVars>>

StoreNext ==
    \/ \E c \in StoredCollections : \E outcome \in SaveOutcomes : StoreSave(c, outcome)
    \/ StoreLoad
    \/ StoreRecover
    \/ \E outcome \in SaveOutcomes : StoreRecoverCommand(outcome)
    \/ StoreRemoveFile

(***************************************************************************)
(* Specifications                                                          *)
(***************************************************************************)
\* the PluginManager alone
\* what every specification leaves alone
Quiet == timer = TimerNew /\ pomo = PomoOff /\ coll = CollOff /\ disk = DiskOff
Idle == tick = TickOff /\ wire = WireIdle /\ Quiet

RegInit == NewManager /\ DaemonEntry /\ sock_file = FALSE /\ CallEntry /\ PathEntry /\ Idle
RegSpec == RegInit /\ [][RegNext]_vars

\* the daemon runtime alone
DaemonInit == DaemonEntry /\ sock_file \in BOOLEAN /\ NewManager /\ CallEntry /\ PathEntry /\ Idle
DaemonSpec == DaemonInit /\ [][DaemonNext]_vars

\* one client call and the daemon it finds or spawns
AutoInit ==
    /\ \/ NoDaemon /\ sock_file \in BOOLEAN
       \/ DaemonServing
    /\ CallEntry
    /\ NewManager
    /\ PathEntry
    /\ Idle
AutoSpec == AutoInit /\ [][AutoNext]_vars

\* the call under fair scheduling of the daemon and of the call itself
FairAutoSpec ==
    /\ AutoSpec
    /\ WF_vars(MainNext)
    /\ SF_vars(SelectAccept)
    /\ \A c \in Conns : WF_vars(TaskNext(c)) /\ SF_vars(TaskLock(c))
    /\ WF_vars(CallNext)

\* clients and daemon processes sharing one socket path
PathInit == PathEntry /\ DaemonEntry /\ sock_file = FALSE /\ CallEntry /\ NewManager /\ Idle
PathSpec == PathInit /\ [][PathNext]_vars

\* the tick interval of a daemon without clients
TickInit ==
    /\ \E secs \in TickIntervals : tick = TickEntry(secs)
    /\ wire = WireIdle /\ Quiet
    /\ DaemonEntry /\ sock_file = FALSE /\ NewManager /\ CallEntry /\ PathEntry
TickSpec == TickInit /\ [][TickNext]_vars

\* one message of either type through send_message and receive_message
CodecInit ==
    /\ \E ty \in MessageTypes : \E msg \in Messages(ty) : \E size \in BufferSizes :
           wire = WireEntry(ty, msg, size)
    /\ tick = TickOff /\ Quiet
    /\ DaemonEntry /\ sock_file = FALSE /\ NewManager /\ CallEntry /\ PathEntry
CodecSpec == CodecInit /\ [][CodecNext]_vars

\* the pomodoro daemon, its clients, its break window and the clock
PomoInit ==
    /\ timer = TimerNew
    /\ \E overflow_checks \in BOOLEAN : pomo = PomoEntry(overflow_checks)
    /\ coll = CollOff /\ disk = DiskOff
    /\ tick = TickOff /\ wire = WireIdle
    /\ DaemonEntry /\ sock_file = FALSE /\ NewManager /\ CallEntry /\ PathEntry
PomoSpec == PomoInit /\ [][PomoNext]_vars

\* one TaskCollection made by new() or by Default
CollInit ==
    /\ \/ coll = CollEntry(NewCollection, "new")
       \/ coll = CollEntry(DefaultCollection, "default")
    /\ timer = TimerNew /\ pomo = PomoOff /\ disk = DiskOff
    /\ tick = TickOff /\ wire = WireIdle
    /\ DaemonEntry /\ sock_file = FALSE /\ NewManager /\ CallEntry /\ PathEntry
CollSpec == CollInit /\ [][CollNext]_vars

\* one MarkdownStorage and the two files it works on
StoreInit ==
    /\ disk = DiskEntry
    /\ timer = TimerNew /\ pomo = PomoOff /\ coll = CollOff
    /\ tick = TickOff /\ wire = WireIdle
    /\ DaemonEntry /\ sock_file = FALSE /\ NewManager /\ CallEntry /\ PathEntry
StoreSpec == StoreInit /\ [][StoreNext]_vars

\* the daemon runtime under the scheduling its runtime provides: every
\* runnable task is eventually polled, the handler mutex serves its waiters
\* in turn, and a select whose listener has a connection ready eventually
\* takes the accept branch
FairDaemonSpec ==
    /\ DaemonSpec
    /\ WF_vars(MainNext)
    /\ SF_vars(SelectAccept)
    /\ SF_vars(TickLock)
    /\ SF_vars(ShutdownLock)
    /\ \A c \in Conns : WF_vars(TaskNext(c)) /\ SF_vars(TaskLock(c))
    /\ \A c \in Conns : WF_vars(ClientReceive(c))

(***************************************************************************)
(* Properties of the PluginManager (RegSpec)                               *)
(***************************************************************************)
\* the capability objects registered under a name, in either map
RegisteredUnder(name) ==
    {static_plugins[n].id : n \in {m \in DOMAIN static_plugins : static_plugins[m].name = name}}
    \cup {dynamic_plugins[n].plugin.id :
              n \in {m \in DOMAIN dynamic_plugins : dynamic_plugins[m].plugin.name = name}}

\* C1: registry name uniqueness. After any sequence of register_static,
\* load_dynamic, discover_plugins and unload_all calls on a new PluginManager,
\* no name is a key of both static_plugins and dynamic_plugins, every entry is
\* stored under its plugin's own name, and at most one capability object is
\* registered under any name.
C1_NamesUnique ==
    /\ (DOMAIN static_plugins) \cap (DOMAIN dynamic_plugins) = {}
    /\ \A n \in DOMAIN static_plugins : static_plugins[n].name = n
    /\ \A n \in DOMAIN dynamic_plugins : dynamic_plugins[n].plugin.name = n
    /\ \A name \in PluginNames : Cardinality(RegisteredUnder(name)) <= 1

\* both maps hold a plugin and a registration has just lost against one of them
C1_Witness ==
    /\ DOMAIN static_plugins # {}
    /\ DOMAIN dynamic_plugins # {}
    /\ ret.op \in {"register_static", "load_dynamic"}
    /\ ret.err = "already_registered"

\* the name a register_static or load_dynamic call answered by r registers
\* under ("" when the call gets no plugin to register)
NameOfCall(r) ==
    IF r.op = "register_static"
    THEN (CHOOSE p \in StaticPlugins : p.id = r.id).name
    ELSE IF r.op = "load_dynamic" /\ LibAt(r.path).kind = "plugin"
    THEN LibAt(r.path).name
    ELSE ""

\* C2: a duplicate registration is rejected without overwriting. Every
\* register_static or load_dynamic call whose plugin's name is already
\* registered, in either map, returns the already-registered error, leaves
\* both maps as they were, and get still returns the capability registered
\* before.
C2_DuplicateRejected ==
    [][ \A name \in PluginNames :
          (/\ HasPlugin(static_plugins, dynamic_plugins, name)
           /\ NameOfCall(ret') = name)
          => /\ ~ret'.ok
             /\ ret'.err = "already_registered"
             /\ static_plugins' = static_plugins
             /\ dynamic_plugins' = dynamic_plugins
             /\ Get(static_plugins', dynamic_plugins', name)
                    = Get(static_plugins, dynamic_plugins, name)
      ]_vars

\* load_dynamic of a library whose plugin name is held by a static plugin was
\* rejected, and the static plugin is still the one registered
C2_Witness ==
    /\ ret.op = "load_dynamic"
    /\ ret.err = "already_registered"
    /\ NameOfCall(ret) \in DOMAIN static_plugins
    /\ Get(static_plugins, dynamic_plugins, NameOfCall(ret)).val.id > 100

(***************************************************************************)
(* Properties of the daemon runtime (DaemonSpec)                           *)
(***************************************************************************)
\* C3: mutual exclusion of the handler callbacks. At most one invocation among
\* on_start, on_tick, handle_command and on_shutdown is in progress at any
\* time, and whoever is inside a callback holds the handler lock.
C3_MutualExclusion ==
    /\ Cardinality(active) <= 1
    /\ \A a \in active : lock = a[1]

\* a command is being handled while the tick branch and another connection
\* both wait for the lock
C3_Witness ==
    /\ pc = "tick_lock"
    /\ \E c, d \in Conns : tpc[c] = "handling" /\ tpc[d] = "lock"

EventuallyAnswered ==
    \A c \in Conns :
        (cst[c] = "sent" /\ inbox[c] = "command")
            ~> (received[c] = 1 \/ cst[c] = "closed" \/ should_shutdown)

PhaseRank ==
    IF pc \in {"entry", "bind", "start_lock", "on_start", "failed"} THEN 0
    ELSE IF pc \in {"check", "select", "tick_lock", "in_tick"} THEN 1
    ELSE IF pc \in {"shutdown_lock", "in_shutdown", "cleanup", "return"} THEN 2
    ELSE 3

C5_Safety ==
    /\ hist.on_shutdown <= 1
    /\ hist.on_shutdown = 1 => hist.observed
    /\ hist.observed <=> PhaseRank >= 2
    /\ hist.cleaned => (hist.on_shutdown = 1 /\ <<MainId, "on_shutdown">> \notin active)
    /\ pc \in {"return", "done"} <=> hist.cleaned
    /\ pc = "done" => (hist.on_shutdown = 1 /\ ~listening)

\* C5: daemon lifecycle order. A run whose listener is bound moves through
\* Starting, Running, ShuttingDown, Stopped one phase at a time and never
\* back; on_shutdown is invoked at most once, only after the main loop has
\* read the shutdown flag as set, and exactly once by the time the socket
\* path is cleaned up, which happens after on_shutdown has returned and
\* before the function returns.
C5_Lifecycle ==
    /\ []C5_Safety
    /\ [][PhaseRank' \in {PhaseRank, PhaseRank + 1}]_vars

\* the run has returned Ok after serving a command that asked for shutdown
C5_Witness ==
    /\ pc = "done"
    /\ hist.on_shutdown = 1
    /\ hist.cleaned
    /\ hist.setters # {}

\* C6: on_start is invoked once, after the listener is bound, and has
\* returned before any connection is accepted, any handle_command is invoked,
\* any on_tick is invoked or the loop is entered.
C6_OnStartFirst ==
    /\ hist.on_start <= 1
    /\ hist.on_start = 1 => hist.bound
    /\ <<MainId, "on_start">> \in active => listening
    /\ (\/ PhaseRank >= 1
        \/ Spawned # {}
        \/ hist.ticked
        \/ \E c \in Conns : handled[c] > 0)
       => (hist.on_start = 1 /\ <<MainId, "on_start">> \notin active)

\* a connection has been accepted and handled and a tick has run, after the
\* one on_start
C6_Witness ==
    /\ hist.on_start = 1
    /\ hist.ticked
    /\ \E c \in Conns : handled[c] = 1

\* C7: whenever handle_command returned HandleResult::Shutdown for a
\* connection, its task has set the shutdown flag by the time it ends; a
\* HandleResult::Response never sets it.
C7_ShutdownSetsFlag ==
    \A c \in Conns :
        /\ (result[c] = "Shutdown" /\ tpc[c] \in {"ok", "err"}) => c \in hist.setters
        /\ result[c] = "Response" => c \notin hist.setters

\* C8: the response of a HandleResult::Shutdown is written to the issuing
\* connection before that connection's task sets the shutdown flag: the flag
\* is set only by tasks whose handler returned Shutdown and whose response has
\* been written.
C8_ResponseBeforeFlag ==
    /\ should_shutdown <=> hist.setters # {}
    /\ \A c \in hist.setters : result[c] = "Shutdown" /\ written[c] = 1

\* the flag is set and the client that asked for shutdown has read its response
C8_Witness ==
    /\ should_shutdown
    /\ \E c \in hist.setters : received[c] = 1

\* C9 as stated: once the shutdown flag is set, no connection is accepted
C9_NoFurtherAccept == hist.accepts_after = 0

\* C9 as amended: after the shutdown flag is set the loop accepts at most one
\* further connection (the accept of the select it was already waiting in),
\* and none once it has read the flag as set.
C9_AtMostOneAccept ==
    /\ [](hist.accepts_after <= 1)
    /\ [][hist.observed => Spawned' = Spawned]_vars

\* the run has ended after one connection was accepted with the flag set
C9_Witness ==
    /\ pc = "done"
    /\ hist.accepts_after = 1

\* C10: after the shutdown flag is set the main loop takes at most one further
\* select event (a tick or an accept), does not wait in the select again
\* after it, and then leaves Running.
C10_OneMoreEvent ==
    /\ hist.events_after <= 1
    /\ (should_shutdown /\ pc = "select") => hist.events_after = 0
    /\ (should_shutdown /\ hist.events_after = 1 /\ PhaseRank = 1)
           => pc \in {"tick_lock", "in_tick", "check"}

\* the run has stopped after exactly one tick taken with the flag set
C10_Witness ==
    /\ pc = "done"
    /\ hist.events_after = 1
    /\ hist.accepts_after = 0

\* under fair scheduling the daemon stops once the flag is set
EventuallyStopped == should_shutdown ~> (pc = "done")

\* C11: shutdown is terminal. Once on_shutdown has been invoked, no
\* handle_command and no on_tick is invoked any more, also not by a connection
\* task that was accepted before the shutdown flag was set.
C11_ShutdownTerminal ==
    [][ hist.on_shutdown >= 1
          => /\ handled' = handled
             /\ (<<MainId, "on_tick">> \in active' => <<MainId, "on_tick">> \in active)
      ]_vars

\* C12: reaching Stopped never cuts off a pending response. No connection
\* task that has received its command ends without having attempted to write
\* its response.
C12_NoResponseCutOff ==
    \A c \in Conns : tpc[c] # "cut"

(***************************************************************************)
(* Properties of send_command_with_autospawn (AutoSpec)                    *)
(***************************************************************************)
\* C13: with no daemon listening at the first connect, the call invokes the
\* spawn once, and when a child was spawned it sleeps the configured startup
\* wait once and then retries connect once; no call spawns more than one
\* child or attempts connect more than twice.
C13_OneSpawnOneRetry ==
    /\ call.spawns <= 1
    /\ call.children <= call.spawns
    /\ call.connects <= 2
    /\ call.sleeps <= 1
    /\ call.slept_ms = call.sleeps * startup_wait_ms
    /\ call.pc = "retry" => (call.sleeps = 1 /\ call.connects = 1)
    /\ call.connects = 2 => (call.children = 1 /\ call.sleeps = 1 /\ call.conn_err)
    /\ (call.conn_err /\ call.pc \in {"send", "recv", "done"})
          => /\ call.spawns = 1
             /\ call.children = 1 => (call.sleeps = 1 /\ call.connects = 2)

C13_Witness ==
    /\ call.conn_err
    /\ call.spawns = 1
    /\ call.children = 1
    /\ call.slept_ms = startup_wait_ms
    /\ call.connects = 2
    /\ call.pc = "send"

\* C14: if the first connect fails, the daemon is spawned and the retry
\* connect fails too, the call returns DaemonNotRunning with the first
\* connection error as its source, and no command is sent.
C14_RetryFailureIsDaemonNotRunning ==
    (call.pc = "done" /\ call.children = 1 /\ call.connects = 2 /\ call.sends = 0)
        => /\ call.ret.kind = "DaemonNotRunning"
           /\ call.ret.source = "conn_err"

\* C15: when no daemon listens at the first connect and the spawned daemon
\* listens when the startup wait is over, the retry connect succeeds, and the
\* daemon handles one command and writes one response for the call, which
\* the call returns.
C15_Safety ==
    /\ handled[CallConn] <= 1
    /\ written[CallConn] <= 1
    /\ (call.connects = 2 /\ call.ret.kind = "Ok")
          => (handled[CallConn] = 1 /\ written[CallConn] = 1 /\ received[CallConn] = 1)

C15_RetrySucceeds ==
    /\ [](C15_Safety)
    /\ [][(call.pc = "retry" /\ listening /\ call'.pc # "retry") => call'.pc = "send"]_vars
    /\ (call.connects = 2 /\ call.pc = "recv" /\ inbox[CallConn] = "command")
          ~> (call.pc = "done" /\ call.ret.kind = "Ok"
              /\ handled[CallConn] = 1 /\ written[CallConn] = 1)

C15_Witness ==
    /\ call.connects = 2
    /\ call.children = 1
    /\ call.pc = "done"
    /\ call.ret.kind = "Ok"
    /\ handled[CallConn] = 1
    /\ written[CallConn] = 1

\* C16: when the first connect succeeds the call spawns nothing and does not
\* sleep; it sends the command once, reads one response and returns it.
C16_DirectCall ==
    ~call.conn_err
       => /\ call.spawns = 0
          /\ call.sleeps = 0
          /\ call.connects <= 1
          /\ call.sends <= 1
          /\ call.recvs <= 1
          /\ call.pc = "done" => (call.connects = 1 /\ call.sends = 1 /\ call.recvs = 1)
          /\ call.ret.kind = "Ok" => (call.pc = "done" /\ received[CallConn] = 1
                                      /\ written[CallConn] = 1)

C16_Witness ==
    /\ ~call.conn_err
    /\ call.pc = "done"
    /\ call.ret.kind = "Ok"
    /\ received[CallConn] = 1

(***************************************************************************)
(* Properties of the shared socket path (PathSpec)                         *)
(***************************************************************************)
\* C17: the socket path belongs to one daemon runtime from its bind to its
\* own final cleanup: while a runtime is bound, no other process removes or
\* rebinds the path, a second daemon started on the same path included.
C17_PathExclusive ==
    [][ \A d \in Procs :
          (rpc[d] \in {"running", "cleanup"} /\ path_owner = d /\ path_owner' # d)
              => (rpc[d] = "cleanup" /\ rpc'[d] = "done")
      ]_vars

(***************************************************************************)
(* Failure handling of the daemon's connections (DaemonSpec)               *)
(***************************************************************************)
\* C18: an undecodable inbound message stays within its connection. The
\* handler is not invoked for it, nothing is written on that connection, its
\* task does not set the shutdown flag, and the step that rejects it changes
\* nothing of the loop, the lock, the flag or any other connection, so the
\* daemon goes on ticking and serving.
C18_Isolated ==
    \A c \in Conns :
        inbox[c] = "garbage"
            => /\ handled[c] = 0
               /\ written[c] = 0
               /\ c \notin hist.setters
               /\ tpc[c] \in {"none", "recv", "err", "dropped"}

C18_UndecodableIsolated ==
    /\ [](C18_Isolated)
    /\ [][ \A c \in Conns :
             (inbox[c] = "garbage" /\ tpc[c] = "recv" /\ tpc'[c] = "err")
                 => /\ UNCHANGED <<pc, listening, sock_file, lock, active, should_shutdown>>
                    /\ \A d \in Conns \ {c} : tpc'[d] = tpc[d] /\ written'[d] = written[d]
         ]_vars

\* one connection was dropped for an undecodable message, another was served
\* and the daemon is still in its loop
C18_Witness ==
    /\ pc = "select"
    /\ ~should_shutdown
    /\ hist.ticked
    /\ \E c, d \in Conns :
          /\ inbox[c] = "garbage" /\ tpc[c] = "err"
          /\ inbox[d] = "command" /\ received[d] = 1

\* C19 as stated: no receiver reports an error for a zero-byte read, neither
\* a connection task of the daemon nor a client reading its response.
C19_ZeroReadNeverAnError ==
    \A c \in Conns :
        /\ (tpc[c] = "err") => inbox[c] # ""
        /\ cst[c] # "failed"

\* C19 as amended: receive_message returns the IpcConnection error for a
\* zero-byte read. handle_connection takes that error as benign: its task
\* ends Ok without invoking the handler or writing. A client whose read
\* returns zero bytes does not complete its exchange: it gets the error.
C19_ZeroReadBenignInDaemonOnly ==
    /\ ~ReceiveMessage("").ok
    /\ ReceiveMessage("").kind = "IpcConnection"
    /\ \A c \in Conns :
          /\ (tpc[c] = "err") => inbox[c] # ""
          /\ (tpc[c] = "ok" /\ inbox[c] = "")
                => (cst[c] = "closed" /\ handled[c] = 0 /\ written[c] = 0)
          /\ cst[c] = "got" => received[c] = 1
          /\ cst[c] = "failed" => received[c] = 0

C19_Witness ==
    \E c, d \in Conns :
        /\ tpc[c] = "ok" /\ inbox[c] = "" /\ cst[c] = "closed"
        /\ cst[d] = "failed" /\ inbox[d] # ""

(***************************************************************************)
(* on_load and register_static (RegSpec)                                   *)
(***************************************************************************)
\* C20: register_static calls the plugin's on_load once, before inserting.
\* When on_load fails the error is returned and the registry is unchanged;
\* when the name is already registered on_load is not called at all.
C20_OnLoadThenInsert ==
    [][ ret'.op = "register_static"
          => LET plugin == CHOOSE q \in StaticPlugins : q.id = ret'.id
             IN  IF HasPlugin(static_plugins, dynamic_plugins, plugin.name)
                 THEN /\ trace' = <<>>
                      /\ ret'.err = "already_registered"
                      /\ UNCHANGED <<static_plugins, dynamic_plugins>>
                 ELSE IF ~plugin.on_load_ok
                 THEN /\ trace' = <<<<"on_load", plugin.id>>>>
                      /\ ret'.err = "load_error"
                      /\ UNCHANGED <<static_plugins, dynamic_plugins>>
                 ELSE /\ trace' = <<<<"on_load", plugin.id>>, <<"insert", plugin.id>>>>
                      /\ ret'.ok
                      /\ plugin.name \in DOMAIN static_plugins'
                      /\ static_plugins'[plugin.name].id = plugin.id
      ]_vars

\* a register_static whose on_load failed has just returned
C20_Witness ==
    /\ ret.op = "register_static"
    /\ ret.err = "load_error"
    /\ trace = <<<<"on_load", ret.id>>>>
    /\ ~HasPlugin(static_plugins, dynamic_plugins, "c")

(***************************************************************************)
(* Loading, discovery, dispatch and teardown of plugins (RegSpec)          *)
(***************************************************************************)
Events(kind) == {i \in DOMAIN trace : trace[i][1] = kind}
EventsNext(kind) == {i \in DOMAIN trace' : trace'[i][1] = kind}

\* C21: load_dynamic never calls on_load of the plugin it loads, called
\* directly or by discover_plugins, registering the plugin or rejecting it
\* as a duplicate.
C21_LoadDynamicSkipsOnLoad ==
    [][ ret'.op \in {"load_dynamic", "discover_plugins"} => EventsNext("on_load") = {} ]_vars

\* a direct load that registered its plugin, having created and boxed it
C21_Witness ==
    /\ ret.op = "load_dynamic"
    /\ ret.ok
    /\ Events("into_boxed") # {}
    /\ Events("on_load") = {}

\* C22: a discovery over directories that hold the same plugin artifact
\* registers the plugin once at most, and the returned list has at most one
\* path for it: the listed paths are those of the plugins this discovery
\* registered, one path for each.
C22_DiscoverOncePerPlugin ==
    [][ ret'.op = "discover_plugins"
          => LET loaded == ret'.loaded
             IN  /\ \A i, j \in DOMAIN loaded :
                       LibAt(loaded[i]).name = LibAt(loaded[j]).name => i = j
                 /\ \A i \in DOMAIN loaded :
                       /\ LibAt(loaded[i]).kind = "plugin"
                       /\ LibAt(loaded[i]).name \in DOMAIN dynamic_plugins'
                       /\ LibAt(loaded[i]).name \notin DOMAIN dynamic_plugins
                 /\ ret'.ok =>
                       Cardinality(EventsNext("into_boxed")) - Cardinality(EventsNext("drop_plugin"))
                          = Len(loaded)
      ]_vars

\* both directories holding liba.so were searched and one of its paths is
\* listed
C22_Witness ==
    /\ ret.op = "discover_plugins"
    /\ ret.ok
    /\ {plugin_paths[i] : i \in DOMAIN plugin_paths} = {D1, D2}
    /\ "a" \in DOMAIN dynamic_plugins
    /\ Cardinality({i \in DOMAIN ret.loaded : LibAt(ret.loaded[i]).name = "a"}) = 1

\* the candidates of a discovery: the plugin-suffixed entries of the search
\* directories up to the first one that exists but cannot be listed
RECURSIVE Candidates(_)
Candidates(paths) ==
    IF paths = <<>> THEN {}
    ELSE IF ~DirExists(Head(paths)) THEN Candidates(Tail(paths))
    ELSE IF ~DirReadable(Head(paths)) THEN {}
    ELSE {<<Head(paths), f>> : f \in {g \in DirEntries(Head(paths)) : IsPlugin(Extension(g))}}
         \cup Candidates(Tail(paths))

RECURSIVE AllListable(_)
AllListable(paths) ==
    paths = <<>> \/ ((DirExists(Head(paths)) => DirReadable(Head(paths))) /\ AllListable(Tail(paths)))

\* C23: a candidate that fails to load (open failure, missing symbol, null
\* handle, duplicate name) does not end the discovery. It returns Ok whenever
\* every existing search directory can be listed, every candidate whose
\* library yields a plugin ends up with that plugin name registered unless
\* the base-name test skipped it, and every path listed was loaded and
\* registered.
C23_DiscoverGoesOn ==
    [][ ret'.op = "discover_plugins"
          => /\ ret'.ok <=> AllListable(plugin_paths)
             /\ ret'.ok =>
                   \A cand \in Candidates(plugin_paths) :
                      LET file_path == Join(cand[1], cand[2])
                      IN  LibAt(file_path).kind = "plugin"
                             => \/ HasPlugin(static_plugins', dynamic_plugins', LibAt(file_path).name)
                                \/ AlreadyLoaded(ret'.loaded, PluginBaseName(cand[2]))
             /\ \A i \in DOMAIN ret'.loaded :
                   LibAt(ret'.loaded[i]).name \in DOMAIN dynamic_plugins'
      ]_vars

\* a discovery in which a candidate failed (its library was dropped with no
\* plugin boxed) and a later candidate was loaded and listed
C23_Witness ==
    /\ ret.op = "discover_plugins"
    /\ ret.ok
    /\ ret.loaded # <<>>
    /\ \E i, j \in DOMAIN trace :
          /\ i + 1 < j
          /\ trace[i][1] = "create" /\ trace[i + 1][1] = "drop_library"
          /\ trace[j][1] = "into_boxed"
          /\ \E n \in DOMAIN dynamic_plugins : dynamic_plugins[n].plugin.id = trace[j][2]

\* C24: execute on a name that is not registered returns the not-found error
\* and calls no plugin; otherwise it calls execute once on the plugin
\* registered under that name and returns its result, a plugin failure as an
\* error. The registry is the same after as before.
C24_ExecuteForwardsOnce ==
    [][ ret'.op = "execute"
          => LET found == Get(static_plugins, dynamic_plugins, ret'.name)
             IN  /\ UNCHANGED <<static_plugins, dynamic_plugins, plugin_paths>>
                 /\ IF ~HasPlugin(static_plugins, dynamic_plugins, ret'.name)
                    THEN /\ ret'.err = "not_found"
                         /\ trace' = <<>>
                    ELSE /\ trace' = <<<<"execute", found.val.id>>>>
                         /\ ret'.ok \/ ret'.err = "execution_failed"
      ]_vars

\* an execute forwarded to a dynamic plugin that failed
C24_Witness ==
    /\ ret.op = "execute"
    /\ ret.err = "execution_failed"
    /\ ret.name \in DOMAIN dynamic_plugins
    /\ trace = <<<<"execute", dynamic_plugins[ret.name].plugin.id>>>>

\* C25: whenever a library is unloaded, the plugin created from it, if one
\* is alive, was dropped before: in unload_all, in the drop of the manager
\* and in the rejection of a duplicate by load_dynamic. No library of a
\* plugin that stays registered is unloaded. unload_all calls no on_unload
\* and empties both maps.
C25_PluginBeforeLibrary ==
    [][ /\ \A j \in EventsNext("drop_library") :
               LET x == trace'[j][2]
               IN  (\/ \E i \in 1..(j - 1) : trace'[i] = <<"into_boxed", x>>
                    \/ ret'.op = "unload_all")
                      => \E i \in 1..(j - 1) : trace'[i] = <<"drop_plugin", x>>
        /\ ret'.op = "unload_all"
              => /\ EventsNext("on_unload") = {}
                 /\ static_plugins' = EmptyMap
                 /\ dynamic_plugins' = EmptyMap
                 /\ \A n \in DOMAIN dynamic_plugins :
                       \E i, j \in DOMAIN trace' :
                          /\ i < j
                          /\ trace'[i] = <<"drop_plugin", dynamic_plugins[n].plugin.id>>
                          /\ trace'[j] = <<"drop_library", dynamic_plugins[n].library>>
      ]_vars

\* an unload_all has released two dynamic plugins
C25_Witness ==
    /\ ret.op = "unload_all"
    /\ Cardinality(Events("drop_library")) = 2
    /\ Cardinality(Events("drop_plugin")) = 2
    /\ dynamic_plugins = EmptyMap

\* C26: load_dynamic calls into_boxed at most once on a handle, directly
\* after the creation function returned it, and never on a null handle: a
\* null handle gives the create-failed error and leaves the registry as it
\* was.
C26_IntoBoxedOnce ==
    [][ /\ \A i \in EventsNext("into_boxed") :
               /\ i > 1
               /\ trace'[i - 1][1] = "create"
        /\ (ret'.op = "load_dynamic" /\ LibAt(ret'.path).kind = "null")
              => /\ ret'.err = "null_handle"
                 /\ EventsNext("into_boxed") = {}
                 /\ UNCHANGED <<static_plugins, dynamic_plugins>>
        /\ (ret'.op = "load_dynamic" /\ LibAt(ret'.path).kind = "plugin")
              => Cardinality(EventsNext("into_boxed")) = 1
      ]_vars

\* a load of a library whose creation function returned a null handle
C26_Witness ==
    /\ ret.op = "load_dynamic"
    /\ ret.err = "null_handle"
    /\ Events("create") # {}
    /\ Events("into_boxed") = {}

(***************************************************************************)
(* The handler lock and slow clients (DaemonSpec)                          *)
(***************************************************************************)
\* C27 as stated: a connection task that waits for its client, to deliver
\* the command or to take the response, holds the handler lock meanwhile.
C27_WaitingTaskHoldsLock ==
    \A c \in Conns : tpc[c] \in {"recv", "send"} => lock = c

\* C27 as amended: a connection task holds the handler lock exactly while
\* handle_command runs for it. While it waits for its client's command or
\* writes the response it does not hold the lock, so a slow client delays
\* neither on_tick nor the commands of other clients.
C27_LockOnlyWhileHandling ==
    \A c \in Conns :
        /\ lock = c <=> tpc[c] = "handling"
        /\ tpc[c] \in {"recv", "send"} => lock # c

\* one client is connected and has not sent its command yet; meanwhile the
\* handler serves another connection
C27_Witness ==
    \E c, d \in Conns :
        /\ c # d
        /\ tpc[c] = "recv" /\ cst[c] = "connected"
        /\ tpc[d] = "handling" /\ lock = d

(***************************************************************************)
(* The tick rate (TickSpec)                                                *)
(***************************************************************************)
\* C28: with no connections, once the daemon is Running the number of
\* on_tick calls made so far is within 1 of floor(d / tick_interval), where
\* d is the time it has been Running.
C28_TickCount ==
    tick.pos \in {"select", "on_tick"} =>
        LET d == tick.now - tick.started
            f == d \div Period
        IN  /\ tick.count >= f - 1
            /\ tick.count <= f + 1

\* the daemon has been Running for at least three periods, its ticks were
\* served late, and the count equals the floor
C28_Witness ==
    /\ tick.pos = "select"
    /\ tick.now - tick.started >= 3 * Period
    /\ tick.now > tick.deadline
    /\ tick.count = (tick.now - tick.started) \div Period

(***************************************************************************)
(* The message codec (CodecSpec)                                           *)
(***************************************************************************)
\* the message was sent and receive_message has returned
Received == wire.pos = "done" /\ wire.bytes # <<>>
\* the receiver's single read saw every byte of the message
Whole == wire.arrived = Len(wire.bytes) /\ Len(wire.bytes) <= wire.size
\* the bytes the single read returned
PrefixRead == SubSeq(wire.bytes, 1, Min(wire.arrived, wire.size))

\* C29: codec round trip. For every DaemonCommand and DaemonResponse value
\* whose encoding fits the buffer and arrives in one read, receive_message
\* returns Ok of a value equal to the one given to send_message.
C29_RoundTrip ==
    Received /\ Whole => wire.out = DecodeOk(wire.msg)

\* a Status response with a task id, and an Error response whose text holds
\* a quote, have gone through whole
C29_Witness ==
    /\ Received /\ Whole /\ wire.out.ok
    /\ \/ wire.msg.v = "Status" /\ wire.ty = "DaemonResponse" /\ wire.msg.task_id = Some(12)
       \/ wire.msg.v = "Error" /\ Contains(wire.msg.s, <<"\"">>)

\* C30 as stated: a message longer than the buffer, or one that arrives
\* split, is never returned whole; receive_message returns a decode error or
\* a value decoded from the prefix that was read.
C30_TruncatedIsDecodeErrorOrPrefix ==
    Received /\ ~Whole =>
        /\ wire.out # DecodeOk(wire.msg)
        /\ \/ wire.out = DecodeErr
           \/ wire.out.ok /\ wire.out = FromSlice(wire.ty, PrefixRead)

\* C30 as amended: such a message is never returned whole. With a buffer of
\* at least one byte receive_message returns a decode error or a value
\* decoded from the prefix that was read; with a buffer of zero bytes the
\* read returns zero and receive_message returns the connection-closed error.
C30_TruncatedNeverWhole ==
    Received /\ ~Whole =>
        /\ wire.out # DecodeOk(wire.msg)
        /\ IF wire.size = 0
           THEN wire.out = ClosedErr
           ELSE \/ wire.out = DecodeErr
                \/ wire.out.ok /\ wire.out = FromSlice(wire.ty, PrefixRead)

\* a Start command that does not fit a 64-byte buffer, and a message that
\* fits but arrived split, have been received
C30_Witness ==
    /\ Received /\ ~Whole /\ wire.size > 0 /\ wire.out = DecodeErr
    /\ \/ wire.msg.v = "Start" /\ wire.arrived = Len(wire.bytes) /\ Len(wire.bytes) > wire.size
       \/ wire.arrived < Len(wire.bytes) /\ Len(wire.bytes) <= wire.size

(***************************************************************************)
(* Lazy on_load, the base-name skip of discovery (RegSpec)                 *)
(***************************************************************************)
\* C31: on_load of a dynamically loaded plugin is called when the plugin is
\* first used. The execute that directly follows the load_dynamic which
\* registered the plugin is its first use, so it calls on_load and then
\* forwards the command.
C31_FirstExecuteCallsOnLoad ==
    [][ /\ ret.op = "load_dynamic" /\ ret.ok
        /\ ret'.op = "execute"
        /\ LibAt(ret.path).name = ret'.name
          => LET id == dynamic_plugins[ret'.name].plugin.id
             IN  trace' = <<<<"on_load", id>>, <<"execute", id>>>>
      ]_vars

\* C32: discover_plugins skips a candidate exactly when a plugin whose file
\* has the same base name was loaded earlier in the pass. So after a
\* discovery that returned Ok, every candidate whose library yields a plugin
\* has that plugin's name registered, or a file of the same base name is
\* among the paths loaded.
C32_SkipOnlyOnMatchingBaseName ==
    [][ ret'.op = "discover_plugins" /\ ret'.ok
          => \A cand \in Candidates(plugin_paths) :
                LET file_path == Join(cand[1], cand[2])
                    FileName(path) ==
                        LET last == CHOOSE i \in 1..Len(path) :
                                        /\ path[i] = "/"
                                        /\ \A j \in (i + 1)..Len(path) : path[j] # "/"
                        IN  SubSeq(path, last + 1, Len(path))
                IN  LibAt(file_path).kind = "plugin"
                       => \/ HasPlugin(static_plugins', dynamic_plugins', LibAt(file_path).name)
                          \/ \E i \in DOMAIN ret'.loaded :
                                PluginBaseName(FileName(ret'.loaded[i])) = PluginBaseName(cand[2])
      ]_vars

(***************************************************************************)
(* Spawn failure in send_command_with_autospawn (AutoSpec)                 *)
(***************************************************************************)
\* C33: when the first connect fails and spawn_daemon_process fails, the
\* call is over at once with DaemonNotRunning carrying the spawn error: it
\* has not slept, has attempted connect once only, and has sent and received
\* nothing.
C33_SpawnFailureReturnsAtOnce ==
    (call.spawns = 1 /\ call.children = 0)
        => /\ call.pc = "done"
           /\ call.ret.kind = "DaemonNotRunning"
           /\ call.ret.source = "spawn_err"
           /\ call.conn_err
           /\ call.sleeps = 0 /\ call.slept_ms = 0
           /\ call.connects = 1
           /\ call.sends = 0 /\ call.recvs = 0

\* the spawn failed after a failed first connect
C33_Witness ==
    /\ call.conn_err
    /\ call.spawns = 1 /\ call.children = 0
    /\ call.pc = "done"
    /\ call.ret.kind = "DaemonNotRunning"

(***************************************************************************)
(* The pomodoro daemon: C34 - C38                                          *)
(***************************************************************************)
\* C34: cycles_remaining never underflows: whatever Start (cycles >= 1),
\* Stop, Pause, Resume and Status commands, ticks and break-window exits
\* came before, the decrement at the end of a Focus period finds at least 1,
\* so it neither panics nor wraps around.
C34_CyclesNeverUnderflow ==
    /\ ~pomo.panicked
    /\ timer.cycles_remaining >= 0

\* C35: after a Stop command the timer stays Idle with no countdown until a
\* Start command arrives, and a Resume in between answers Error.
C35_StopIsFinal ==
    pomo.stopped
        => /\ timer.mode = "Idle"
           /\ ~timer.end_time.some
           /\ (pomo.last.some /\ pomo.last.val.cmd = "Resume")
                  => pomo.last.val.response.v = "Error"

\* C36: end_time and paused_duration are never both set.
C36_RunningPausedExclusive ==
    ~(timer.end_time.some /\ timer.paused_duration.some)

\* the periods of a session of n cycles: n Focus periods with a Break
\* between two of them, then Idle
ExpectedPeriods(n) ==
    [i \in 1..(2 * n) |-> IF i = 2 * n THEN "Idle"
                          ELSE IF i % 2 = 1 THEN "Focus" ELSE "Break"]
SessionAsExpected ==
    LET periods == pomo.sess.periods
        n == pomo.sess.cycles
    IN  /\ Len(periods) <= 2 * n
        /\ periods = SubSeq(ExpectedPeriods(n), 1, Len(periods))
        /\ timer.mode = periods[Len(periods)]
        /\ Len(periods) = 2 * n
              => /\ ~timer.end_time.some
                 /\ timer.cycles_remaining = 0
                 /\ timer.completed_pomodoros = 0

C38_KillIsTheLastCommand ==
    /\ pomo.kill_sends <= 1
    /\ pomo.exited => pomo.kill_sends = 1
    /\ (pomo.kill_began /\ ~pomo.exited) => pomo.lock # Free
    /\ \A c \in PomoConns :
          /\ pomo.pos[c] = "kill_send" => (pomo.lock = c /\ pomo.kill_sends = 0)
          /\ pomo.pos[c] = "kill_exit" => (pomo.lock = c /\ pomo.kill_sends = 1)
    /\ ~pomo.after_kill

C38_Witness ==
    /\ pomo.exited
    /\ ~pomo.kill_sent
    /\ \E c \in PomoConns : pomo.pos[c] = "recv"
    /\ timer.end_time.some /\ pomo.now >= timer.end_time.val


(***************************************************************************)
(* TaskCollection: C39                                                     *)
(***************************************************************************)
SmallestUnused(keys) ==
    CHOOSE id \in 1..(Cardinality(keys) + 1) :
        /\ id \notin keys
        /\ \A smaller \in 1..(id - 1) : smaller \in keys

\* C39: after every add, remove, remove_checked, insert and reindex on a
\* collection made by new() or Default, each task is stored under its own
\* id, next_id is greater than every stored id, and add has returned the
\* smallest positive integer that was not in use as an id.
C39_KeysIdsAndSmallestFreeId ==
    [][ /\ \A k \in DOMAIN coll'.tasks :
              coll'.tasks[k].id = k /\ coll'.next_id > k
        /\ coll'.ret.op = "add" => coll'.ret.id = SmallestUnused(DOMAIN coll.tasks)
      ]_vars


SurvivesMarkdown(tasks) ==
    \A k \in DOMAIN tasks :
        LET t == tasks[k]
        IN  /\ t.id = k
            /\ ~\E i \in 1..(Len(t.title) - 1) :
                   t.title[i] = "#" /\ t.title[i + 1] \in WordChars
            /\ Trim(t.title) = t.title
            /\ \A i \in 1..Len(t.tags) :
                   t.tags[i] # <<>> /\ \A j \in 1..Len(t.tags[i]) : t.tags[i][j] \in WordChars
            /\ t.category.some
                  => /\ t.category.val # <<>>
                     /\ Trim(t.category.val) = t.category.val
                     /\ ToLowercase(t.category.val) # ToLowercase(UNCATEGORIZED)
            /\ ~t.scheduled.some

====
